---- MODULE Spec2Model ----
(***************************************************************************)
(* portlist: process termination (process-manager), the polling manager   *)
(* and the platform port scanners, modelled as state machines.             *)
(*                                                                         *)
(* SpecKill  one killProcess call of the Unix protocol, one step per       *)
(*           killFn call or timer wait.                                    *)
(* SpecPoll  the polling manager driven by start/stop/setInterval/onUpdate *)
(*           calls, the host's timers and the completion of scans.         *)
(* SpecSubs  the polling manager's subscriber list: registrations, tokens  *)
(*           and one notification whose subscribers call the manager back. *)
(* SpecScan  getPortList on each platform, one step per awaited command.   *)
(***************************************************************************)
EXTENDS Integers, Sequences, FiniteSets, TLC

VARIABLES
    \* ---- process manager (killProcessUnix / waitForProcessExit) ----
    sigtermTimeout, \* createProcessManager's second argument
    kpc,            \* position of the call: idle, loop, probe, sleep, escalate, done
    kpid,           \* the pid killProcess was called with
    kphase,         \* which waitForProcessExit is running: none, graceful, forceful
    now,            \* Date.now()
    loopNow,        \* the event loop's clock, on which setTimeout arms its timers
    startTime,      \* waitForProcessExit: startTime
    timeoutMs,      \* waitForProcessExit: timeoutMs
    calls,          \* every killFn call made so far: [pid, signal, outcome]
    waits,          \* how each finished waitForProcessExit ended
    kresult,        \* the Result killProcess resolved with
    \* ---- polling manager (createPollingManager) ----
    intervalId,     \* 0 is null, otherwise the id of the timer start/setInterval armed
    currentInterval,
    listeners,      \* Array of callbacks, in registration order
    timers,         \* the host's armed repeating timers: [id, interval, armedAt, due, fired]
    nextTimerId,
    clock,          \* the host's time in ms
    inflight,       \* ids of the getPortList calls not resolved yet
    scanCount,      \* number of getPortList calls made so far; a scan's id is its rank
    notified,       \* the listener invocations of the latest notification, in order
    tokens,         \* unsubscribe tokens handed out by onUpdate: the callback of each
    fan,            \* the for..of loop of a running fetchAndNotify: [scan, data, idx]
                    \* and base, the number of tokens handed out when it began
    snapshot,       \* the listeners as they were when the running notification began
    used,           \* the unsubscribe tokens invoked at least once
    pmArg,          \* what the last step was given: [token, ok, ms]
    pmOp,           \* the operation the last step performed
    \* ---- port scanner (createPortScanner) ----
    platform,       \* os.platform()
    spc,            \* the await getPortList is suspended at: idle, step1, cwd,
                    \* readlink, ps, wmic, tasklist, parent, done
    ports,          \* the records parsed from the output of step 1
    cwdMap,         \* pid -> working directory
    processInfoMap, \* pid -> [command, ppid]
    parentCommandMap, \* parent pid -> command line
    execs,          \* every execFn call of the scan: [cmd, out, message]
    readlinks,      \* scanPortsLinux: the readlink calls of the scan settled so far
    sresult,        \* the Result getPortList resolved with
    \* ---- killProcessWindows ----
    taskkills,      \* every execAsync call of killProcessWindows: [cmd, pid, timeout]
    \* ---- the parsers and the enricher, applied on their own ----
    fpc,            \* idle, in (arguments chosen), out (the function returned)
    fin,            \* the arguments
    fout,           \* the value returned
    \* ---- settings store (createSettingsStore) and its wiring in main ----
    settings,       \* the values the store holds
    lastChange,     \* the last change of the store: its key, its time, its rank
    app             \* main: the window service it is linked with, and what the
                    \* callback of app.whenReady() did: [window, ready]

kvars == <<sigtermTimeout, kpc, kpid, kphase, now, loopNow, startTime, timeoutMs,
           calls, waits, kresult>>
pvars == <<intervalId, currentInterval, listeners, timers, nextTimerId, clock,
           inflight, scanCount, notified, tokens, fan, snapshot, used, pmArg, pmOp>>
svars == <<platform, spc, ports, cwdMap, processInfoMap, parentCommandMap, execs,
           readlinks, sresult>>
xvars == <<taskkills, fpc, fin, fout, settings, lastChange, app>>
vars == <<sigtermTimeout, kpc, kpid, kphase, now, loopNow, startTime, timeoutMs,
          calls, waits, kresult, intervalId, currentInterval, listeners, timers,
          nextTimerId, clock, inflight, scanCount, notified, tokens, fan, snapshot,
          used, pmArg, pmOp, platform, spc, ports, cwdMap, processInfoMap,
          parentCommandMap, execs, readlinks, sresult, taskkills, fpc, fin, fout, settings,
          lastChange, app>>

(***************************************************************************)
(* Program constants                                                       *)
(***************************************************************************)
KILL_SIGTERM == 3000
PROBE_DELAY == 100
SIGKILL_WAIT == 1000
DEFAULT_POLLING_INTERVAL == 5000
TASKKILL_TIMEOUT == 5000

(***************************************************************************)
(* Bounds of the model                                                     *)
(***************************************************************************)
\* the timer of a wait fires on the event loop's clock, PROBE_DELAY after it
\* was armed or, the loop being busy, MaxLateness later, or only once the
\* timeout of the wait has passed (PauseUntilTimeout); Date.now() is the
\* wall clock, whose reading may be MaxEarly ms behind the loop's
\* clock (99 is read after a first wait of 100 ms)
MaxLateness == 50
MaxEarly == 1
\* number of scans (getPortList calls) one behaviour may initiate
MaxScans == 3
\* number of timers one behaviour may arm
MaxTimers == 3
\* number of onUpdate registrations in one behaviour
MaxTokens == 3
\* number of onUpdate registrations in one behaviour of SpecPoll
MaxPollSubs == 1
\* the host's clock runs from 0 to MaxClock ms, in steps of at most ClockStep
MaxClock == 4000
ClockStep == 1000
\* number of lines in the output of the step 1 command, a header included
MaxLines == 3
\* number of lines in the output of an enrichment command, a header included
MaxInfoLines == 2
MaxRaws == 3
MaxKills == 2
\* number of changes of the settings store in one behaviour
MaxChanges == 2

Pids == {12345, 777}
Messages == {"Unknown error", "boom"}
SigtermTimeouts == {0, 100, 250, KILL_SIGTERM}
Intervals == {1000, 2000}
InitialIntervals == {3000, DEFAULT_POLLING_INTERVAL}
Callbacks == {"cbA", "cbB"}
PortLists == {"none", "node:3000"}

(***************************************************************************)
(* Process manager                                                         *)
(***************************************************************************)
\* what one killFn call does: it returns, or throws an Error with a code
\* (possibly none) and a message
Returned == [code |-> "OK", message |-> ""]
Thrown == [code : {"ESRCH", "EPERM", "EIO", "NONE"}, message : Messages]
Outcomes == {Returned} \cup Thrown

Pending == [success |-> FALSE, type |-> "PENDING", pid |-> 0, message |-> ""]
Success == [success |-> TRUE, type |-> "", pid |-> 0, message |-> ""]
Failure(t, p, m) == [success |-> FALSE, type |-> t, pid |-> p, message |-> m]

\* KillErrorOf without its ESRCH branch
KillErrorOf_NoEsrch(err, pid) ==
    IF err.code = "EPERM" THEN Failure("PERMISSION_DENIED", pid, "")
    ELSE Failure("UNKNOWN", 0, err.message)

\* KillErrorOf without its EPERM branch
KillErrorOf_NoEperm(err, pid) ==
    IF err.code = "ESRCH" THEN Failure("NOT_FOUND", pid, "")
    ELSE Failure("UNKNOWN", 0, err.message)

\* killProcessUnix, the outer catch: the error of a throw that reaches it
KillErrorOf(err, pid) ==
    IF err.code = "ESRCH" THEN Failure("NOT_FOUND", pid, "")
    ELSE IF err.code = "EPERM" THEN Failure("PERMISSION_DENIED", pid, "")
    ELSE Failure("UNKNOWN", 0, err.message)

\* WithinTimeout with <= for <
WithinTimeout_Inclusive(t, start, timeout) == t - start <= timeout

\* waitForProcessExit, the loop condition
WithinTimeout(t, start, timeout) == t - start < timeout

\* ProbeSaysGone taking no throw for "exited"
ProbeSaysGone_Never(err) == FALSE

\* ProbeSaysGone taking "not permitted" for "exited" too
ProbeSaysGone_OrEperm(err) == err.code \in {"ESRCH", "EPERM"}

\* ProbeSaysGone testing the wrong code
ProbeSaysGone_Eperm(err) == err.code = "EPERM"

\* ProbeSaysGone taking every throw for "exited"
ProbeSaysGone_Any(err) == TRUE

\* waitForProcessExit, the catch: TRUE when the throw means "exited"
ProbeSaysGone(err) == err.code = "ESRCH"

\* ShouldEscalate without the negation
ShouldEscalate_Inverted(exited) == exited

\* ShouldEscalate escalating whatever the wait returned
ShouldEscalate_Always(exited) == TRUE

\* killProcessUnix: if (!exited)
ShouldEscalate(exited) == ~exited

\* SwallowedInEscalate swallowing "no such process" only
SwallowedInEscalate_EsrchOnly(err) == err.code = "ESRCH"

\* killProcessUnix, the inner try/catch around SIGKILL and the second wait:
\* TRUE when a throw inside it is swallowed
SwallowedInEscalate(err) == TRUE

Call(pid, signal, outcome) == [pid |-> pid, signal |-> signal, outcome |-> outcome]

\* killProcess(pid), up to the call killFn(pid, 'SIGTERM') and what it does
KillProcess(pid, out) ==
    /\ platform # "win32"
    /\ kpc = "idle"
    /\ kpid' = pid
    /\ calls' = Append(calls, Call(pid, "SIGTERM", out))
    /\ IF out = Returned
       THEN /\ kpc' = "loop"
            /\ kphase' = "graceful"
            /\ startTime' = now
            /\ timeoutMs' = sigtermTimeout
            /\ kresult' = kresult
       ELSE /\ kpc' = "done"
            /\ kresult' = KillErrorOf(out, pid)
            /\ UNCHANGED <<kphase, startTime, timeoutMs>>
    /\ UNCHANGED <<sigtermTimeout, now, loopNow, waits>>
    /\ UNCHANGED <<pvars, svars, xvars>>

\* waitForProcessExit: the while condition
WaitCheck ==
    /\ kpc = "loop"
    /\ IF WithinTimeout(now, startTime, timeoutMs)
       THEN /\ kpc' = "probe"
            /\ UNCHANGED <<waits, kresult>>
       ELSE \* return false
            /\ waits' = Append(waits, "timeout")
            /\ IF kphase = "graceful" /\ ShouldEscalate(FALSE)
               THEN kpc' = "escalate" /\ kresult' = kresult
               ELSE kpc' = "done" /\ kresult' = Success
    /\ UNCHANGED <<sigtermTimeout, kpid, kphase, now, loopNow, startTime, timeoutMs,
                   calls>>
    /\ UNCHANGED <<pvars, svars, xvars>>

\* waitForProcessExit: killFn(pid, 0) and its catch
Probe(out) ==
    /\ kpc = "probe"
    /\ calls' = Append(calls, Call(kpid, "0", out))
    /\ IF out = Returned
       THEN /\ kpc' = "sleep"
            /\ UNCHANGED <<waits, kresult>>
       ELSE IF ProbeSaysGone(out)
       THEN \* return true
            /\ waits' = Append(waits, "exited")
            /\ IF kphase = "graceful" /\ ShouldEscalate(TRUE)
               THEN kpc' = "escalate" /\ kresult' = kresult
               ELSE kpc' = "done" /\ kresult' = Success
       ELSE \* throw error
            /\ waits' = Append(waits, "threw")
            /\ kpc' = "done"
            /\ kresult' = IF kphase = "forceful" /\ SwallowedInEscalate(out)
                          THEN Success
                          ELSE KillErrorOf(out, kpid)
    /\ UNCHANGED <<sigtermTimeout, kpid, kphase, now, loopNow, startTime, timeoutMs>>
    /\ UNCHANGED <<pvars, svars, xvars>>

\* waitForProcessExit: await setTimeout(resolve, 100): the timer fires late ms
\* after its delay on the loop's clock, and Date.now() then reads lag ms less
Sleep(late, lag) ==
    /\ kpc = "sleep"
    /\ loopNow' = loopNow + PROBE_DELAY + late
    /\ now' = loopNow' - lag
    /\ kpc' = "loop"
    /\ UNCHANGED <<sigtermTimeout, kpid, kphase, startTime, timeoutMs, calls, waits,
                   kresult>>
    /\ UNCHANGED <<pvars, svars, xvars>>

\* killProcessUnix: killFn(pid, 'SIGKILL') inside the inner try
Escalate(out) ==
    /\ kpc = "escalate"
    /\ calls' = Append(calls, Call(kpid, "SIGKILL", out))
    /\ IF out = Returned
       THEN /\ kpc' = "loop"
            /\ kphase' = "forceful"
            /\ startTime' = now
            /\ timeoutMs' = SIGKILL_WAIT
            /\ kresult' = kresult
       ELSE /\ kpc' = "done"
            /\ kresult' = IF SwallowedInEscalate(out) THEN Success
                          ELSE KillErrorOf(out, kpid)
            /\ UNCHANGED <<kphase, startTime, timeoutMs>>
    /\ UNCHANGED <<sigtermTimeout, kpid, now, loopNow, waits>>
    /\ UNCHANGED <<pvars, svars, xvars>>

NoFan == [scan |-> 0, data |-> "", idx |-> 0, base |-> 0]
NoArg == [token |-> 0, ok |-> FALSE, ms |-> 0]

PollIdle ==
    /\ intervalId = 0
    /\ listeners = <<>>
    /\ timers = {}
    /\ nextTimerId = 1
    /\ clock = 0
    /\ inflight = {}
    /\ scanCount = 0
    /\ notified = <<>>
    /\ tokens = <<>>
    /\ fan = NoFan
    /\ snapshot = <<>>
    /\ used = {}
    /\ pmArg = NoArg
    /\ pmOp = "create"

KillIdle ==
    /\ kpc = "idle"
    /\ kpid = 0
    /\ kphase = "none"
    /\ now = 0
    /\ loopNow = 0
    /\ startTime = 0
    /\ timeoutMs = 0
    /\ calls = <<>>
    /\ waits = <<>>
    /\ kresult = Pending

\* new Map()
EmptyMap == [k \in {} |-> 0]

ScanPending == [success |-> FALSE, type |-> "PENDING", message |-> "", data |-> <<>>]

\* nothing applied on its own, no taskkill issued
\* DEFAULT_SETTINGS, the keys the settings store reads and filterText
DEFAULT_SETTINGS ==
    [pollingInterval |-> DEFAULT_POLLING_INTERVAL, alwaysOnTop |-> FALSE,
     sortColumn |-> "port", sortDirection |-> "asc", filterText |-> ""]
NoChange == [key |-> "", at |-> 0, n |-> 0]

\* the module main imports as './window.js': the repository's window
\* service, or an implementation of MainWindowService whose create returns
WindowServices == {"window.ts", "returns"}
AppIdle == [window |-> "window.ts", ready |-> "no"]

\* the store holds the defaults and has not changed; the app is not ready
StoreIdle ==
    /\ settings = DEFAULT_SETTINGS
    /\ lastChange = NoChange
    /\ app = AppIdle

FnIdle ==
    /\ fpc = "idle"
    /\ fin = <<>>
    /\ fout = <<>>
    /\ taskkills = <<>>
    /\ StoreIdle

ScanIdle ==
    /\ spc = "idle"
    /\ ports = <<>>
    /\ cwdMap = EmptyMap
    /\ processInfoMap = EmptyMap
    /\ parentCommandMap = EmptyMap
    /\ execs = <<>>
    /\ readlinks = 0
    /\ sresult = ScanPending

\* createProcessManager(killFn, sigtermTimeout)
InitKill ==
    /\ sigtermTimeout \in SigtermTimeouts
    /\ KillIdle
    /\ currentInterval = DEFAULT_POLLING_INTERVAL
    /\ PollIdle
    /\ platform = "darwin"
    /\ ScanIdle
    /\ FnIdle

\* the lateness of the timer when the event loop is kept busy (another
\* callback, a loaded machine) until the timeout of the running wait has
\* passed on the loop's clock: whatever the length of such a pause, the
\* while condition that follows ends the wait unless Date.now() lags
PauseUntilTimeout ==
    {late \in {startTime + timeoutMs - (loopNow + PROBE_DELAY)} : late > 0}

NextKill ==
    \/ \E pid \in Pids, out \in Outcomes : KillProcess(pid, out)
    \/ WaitCheck
    \/ \E out \in Outcomes : Probe(out)
    \/ \E late \in {0, MaxLateness} \cup PauseUntilTimeout, lag \in {0, MaxEarly} :
          Sleep(late, lag)
    \/ \E out \in Outcomes : Escalate(out)

SpecKill == InitKill /\ [][NextKill]_vars

\* the timers of the event loop fire: every enabled step is eventually taken
FairSpecKill == SpecKill /\ WF_vars(NextKill)

(***************************************************************************)
(* Process manager on Windows                                              *)
(***************************************************************************)
\* what taskkill writes to its standard error when it fails
TaskkillStderrs ==
    {"",
     "ERROR: The process 12345 not found.",
     "ERROR: The process with PID 12345 could not be terminated. Reason: Access is denied.",
     "ERROR: The process 12345 not found. Reason: Access is denied.",
     "ERROR: Process Not Found",
     "ERROR: Invalid argument/option - /PID."}

\* the message of the Error execAsync rejects with
TaskkillMessages ==
    {"",
     "Command failed: taskkill /F /PID 12345",
     "Command failed: taskkill /F /PID 12345 ERROR: The process 12345 not found.",
     "Command failed: taskkill /F /PID 12345 ERROR: Access is denied."}

\* what one execAsync call does: it resolves, or rejects with an Error that
\* has a message and the standard error of the command
TaskkillOk == [kind |-> "ok", stderr |-> "", message |-> ""]
TaskkillOutcomes ==
    {TaskkillOk}
    \cup [kind : {"error"}, stderr : TaskkillStderrs, message : TaskkillMessages]

\* String.prototype.includes on the texts above, for the two English
\* phrases killProcessWindows looks for; its two Japanese phrases occur in
\* none of these texts
Includes(text, phrase) ==
    CASE phrase = "not found" ->
            text \in {"ERROR: The process 12345 not found.",
                      "ERROR: The process 12345 not found. Reason: Access is denied.",
                      "Command failed: taskkill /F /PID 12345 ERROR: The process 12345 not found."}
      [] phrase = "Access is denied" ->
            text \in {"ERROR: The process with PID 12345 could not be terminated. Reason: Access is denied.",
                      "ERROR: The process 12345 not found. Reason: Access is denied.",
                      "Command failed: taskkill /F /PID 12345 ERROR: Access is denied."}

\* err.stderr || err.message || ''
StderrOf(err) == IF err.stderr # "" THEN err.stderr ELSE err.message

\* TaskkillErrorOf taking every failure for UNKNOWN
TaskkillErrorOf_Unknown(err, pid) == Failure("UNKNOWN", 0, StderrOf(err))

\* killProcessWindows, the catch
TaskkillErrorOf(err, pid) ==
    IF Includes(StderrOf(err), "not found") THEN Failure("NOT_FOUND", pid, "")
    ELSE IF Includes(StderrOf(err), "Access is denied")
         THEN Failure("PERMISSION_DENIED", pid, "")
    ELSE Failure("UNKNOWN", 0, StderrOf(err))

\* killProcess(pid) on win32: killProcessWindows up to the await of
\* execAsync(`taskkill /F /PID ${pid}`, { timeout: 5000 })
KillProcessWindows(pid) ==
    /\ platform = "win32"
    /\ kpc \in {"idle", "done"}
    /\ Len(taskkills) < MaxKills
    /\ kpid' = pid
    /\ kpc' = "taskkill"
    /\ kresult' = Pending
    /\ taskkills' = Append(taskkills,
                           [cmd |-> "taskkill /F /PID", pid |-> pid,
                            timeout |-> TASKKILL_TIMEOUT, out |-> "pending",
                            stderr |-> "", message |-> ""])
    /\ UNCHANGED <<sigtermTimeout, kphase, now, loopNow, startTime, timeoutMs, calls,
                   waits>>
    /\ UNCHANGED <<fpc, fin, fout, settings, lastChange, app, pvars, svars>>

\* the taskkill command settled
TaskkillDone(out) ==
    /\ kpc = "taskkill"
    /\ kpc' = "done"
    /\ taskkills' = [taskkills EXCEPT ![Len(taskkills)] =
                        [@ EXCEPT !.out = out.kind, !.stderr = out.stderr,
                                  !.message = out.message]]
    /\ kresult' = IF out.kind = "ok" THEN Success ELSE TaskkillErrorOf(out, kpid)
    /\ UNCHANGED <<sigtermTimeout, kpid, kphase, now, loopNow, startTime, timeoutMs,
                   calls, waits>>
    /\ UNCHANGED <<fpc, fin, fout, settings, lastChange, app, pvars, svars>>

\* createProcessManager() on win32
InitKillWin ==
    /\ sigtermTimeout = KILL_SIGTERM
    /\ KillIdle
    /\ currentInterval = DEFAULT_POLLING_INTERVAL
    /\ PollIdle
    /\ platform = "win32"
    /\ ScanIdle
    /\ FnIdle

NextKillWin ==
    \/ \E pid \in Pids : KillProcessWindows(pid)
    \/ \E out \in TaskkillOutcomes : TaskkillDone(out)

SpecKillWin == InitKillWin /\ [][NextKillWin]_vars

(***************************************************************************)
(* Polling manager                                                         *)
(***************************************************************************)
\* NewTimer armed at the default interval instead of the one passed
NewTimer_DefaultInterval(id, ms) ==
    [id |-> id, interval |-> DEFAULT_POLLING_INTERVAL, armedAt |-> clock,
     due |-> clock + DEFAULT_POLLING_INTERVAL, fired |-> 0]

\* NewTimer armed at the interval the manager had before the call
NewTimer_OldInterval(id, ms) ==
    [id |-> id, interval |-> currentInterval, armedAt |-> clock,
     due |-> clock + currentInterval, fired |-> 0]

\* the host's setInterval(fn, ms): a repeating timer, first due ms from now
NewTimer(id, ms) ==
    [id |-> id, interval |-> ms, armedAt |-> clock, due |-> clock + ms, fired |-> 0]

\* Cleared leaving the timer armed
Cleared_Nothing(ts, id) == ts

\* the host's clearInterval(id)
Cleared(ts, id) == {t \in ts : t.id # id}

\* AlreadyRunning never seeing a running manager
AlreadyRunning_Never == FALSE

\* start(): if (intervalId !== null) return
AlreadyRunning == intervalId # 0

\* fetchAndNotify up to its await: the getPortList() calls it makes
ScansPerFetch == 1

\* startPolling: the fetchAndNotify() calls made before the timer is armed
InitialFetches == 1

\* k calls of fetchAndNotify made now: each calls getPortList() and suspends
\* at the await
Fetched(k) ==
    /\ scanCount + k * ScansPerFetch <= MaxScans
    /\ scanCount' = scanCount + k * ScansPerFetch
    /\ inflight' = inflight \cup {scanCount + n : n \in 1..(k * ScansPerFetch)}

IndexOf(seq, x) ==
    IF \E i \in 1..Len(seq) : seq[i] = x
    THEN CHOOSE i \in 1..Len(seq) : seq[i] = x /\ \A j \in 1..(i - 1) : seq[j] # x
    ELSE 0

\* Array.prototype.splice(index, 1)
Splice(seq, i) == [j \in 1..(Len(seq) - 1) |-> IF j < i THEN seq[j] ELSE seq[j + 1]]

\* the token returned by onUpdate(callback), invoked
Unsubscribed(ls, callback) ==
    IF IndexOf(ls, callback) > 0 THEN Splice(ls, IndexOf(ls, callback)) ELSE ls

\* start(): what it does to the manager
StartBody ==
    /\ fan = NoFan
    /\ pmOp' = "start"
    /\ IF AlreadyRunning
       THEN UNCHANGED <<intervalId, timers, nextTimerId, scanCount, inflight>>
       ELSE \* startPolling()
            /\ nextTimerId <= MaxTimers
            /\ Fetched(InitialFetches)
            /\ timers' = timers \cup {NewTimer(nextTimerId, currentInterval)}
            /\ intervalId' = nextTimerId
            /\ nextTimerId' = nextTimerId + 1
    /\ UNCHANGED <<currentInterval, listeners, clock, notified, tokens, fan>>
    /\ pmArg' = NoArg
    /\ UNCHANGED <<snapshot, used>>

\* start()
Start ==
    /\ StartBody
    /\ UNCHANGED <<kvars, svars, xvars>>

\* Stop forgetting the timer without clearing it
Stop_ForgetsTimer ==
    /\ fan = NoFan
    /\ pmOp' = "stop"
    /\ intervalId' = 0
    /\ UNCHANGED <<timers, currentInterval, listeners, nextTimerId, clock, inflight,
                   scanCount, notified, tokens, fan>>
    /\ pmArg' = NoArg
    /\ UNCHANGED <<snapshot, used>>
    /\ UNCHANGED <<kvars, svars, xvars>>

\* stop()
Stop ==
    /\ fan = NoFan
    /\ pmOp' = "stop"
    /\ IF intervalId # 0
       THEN timers' = Cleared(timers, intervalId) /\ intervalId' = 0
       ELSE UNCHANGED <<timers, intervalId>>
    /\ UNCHANGED <<currentInterval, listeners, nextTimerId, clock, inflight, scanCount,
                   notified, tokens, fan>>
    /\ pmArg' = NoArg
    /\ UNCHANGED <<snapshot, used>>
    /\ UNCHANGED <<kvars, svars, xvars>>

\* SetInterval arming a timer whether or not the manager is running
SetInterval_AlwaysArms(ms) ==
    /\ fan = NoFan
    /\ pmOp' = "setInterval"
    /\ currentInterval' = ms
    /\ nextTimerId <= MaxTimers
    /\ timers' = Cleared(timers, intervalId) \cup {NewTimer(nextTimerId, ms)}
    /\ intervalId' = nextTimerId
    /\ nextTimerId' = nextTimerId + 1
    /\ UNCHANGED <<listeners, clock, inflight, scanCount, notified, tokens, fan>>
    /\ pmArg' = [token |-> 0, ok |-> FALSE, ms |-> ms]
    /\ UNCHANGED <<snapshot, used>>
    /\ UNCHANGED <<kvars, svars, xvars>>

\* setInterval(ms): what it does to the manager
SetIntervalBody(ms) ==
    /\ fan = NoFan
    /\ pmOp' = "setInterval"
    /\ currentInterval' = ms
    /\ IF intervalId # 0
       THEN /\ nextTimerId <= MaxTimers
            /\ timers' = Cleared(timers, intervalId) \cup {NewTimer(nextTimerId, ms)}
            /\ intervalId' = nextTimerId
            /\ nextTimerId' = nextTimerId + 1
       ELSE UNCHANGED <<timers, intervalId, nextTimerId>>
    /\ UNCHANGED <<listeners, clock, inflight, scanCount, notified, tokens, fan>>
    /\ pmArg' = [token |-> 0, ok |-> FALSE, ms |-> ms]
    /\ UNCHANGED <<snapshot, used>>

\* setInterval(ms)
SetInterval(ms) ==
    /\ SetIntervalBody(ms)
    /\ UNCHANGED <<kvars, svars, xvars>>

\* onUpdate(callback), called outside of a notification
OnUpdate(callback) ==
    /\ fan = NoFan
    /\ Len(tokens) < MaxTokens
    /\ pmOp' = "onUpdate"
    /\ listeners' = Append(listeners, callback)
    /\ tokens' = Append(tokens, callback)
    /\ UNCHANGED <<intervalId, currentInterval, timers, nextTimerId, clock, inflight,
                   scanCount, notified, fan>>
    /\ pmArg' = NoArg
    /\ UNCHANGED <<snapshot, used>>
    /\ UNCHANGED <<kvars, svars, xvars>>

\* the k-th token returned by onUpdate, invoked outside of a notification
Unsubscribe(k) ==
    /\ fan = NoFan
    /\ k \in 1..Len(tokens)
    /\ pmOp' = "unsubscribe"
    /\ listeners' = Unsubscribed(listeners, tokens[k])
    /\ UNCHANGED <<intervalId, currentInterval, timers, nextTimerId, clock, inflight,
                   scanCount, notified, tokens, fan>>
    /\ used' = used \cup {k}
    /\ pmArg' = [token |-> k, ok |-> FALSE, ms |-> 0]
    /\ UNCHANGED snapshot
    /\ UNCHANGED <<kvars, svars, xvars>>

\* TimerFire skipping the tick while a scan is in flight
TimerFire_Skips(t) ==
    /\ fan = NoFan
    /\ t \in timers
    /\ t.due <= clock
    /\ pmOp' = "timer"
    /\ IF inflight = {} THEN Fetched(1) ELSE UNCHANGED <<scanCount, inflight>>
    /\ timers' = (timers \ {t}) \cup {[t EXCEPT !.due = t.due + t.interval,
                                                 !.fired = t.fired + 1]}
    /\ UNCHANGED <<intervalId, currentInterval, listeners, nextTimerId, clock, notified,
                   tokens, fan>>
    /\ pmArg' = NoArg
    /\ UNCHANGED <<snapshot, used>>
    /\ UNCHANGED <<kvars, svars, xvars>>

\* the callback of an armed timer runs: () => { fetchAndNotify(); }
TimerFire(t) ==
    /\ fan = NoFan
    /\ t \in timers
    /\ t.due <= clock
    /\ pmOp' = "timer"
    /\ Fetched(1)
    /\ timers' = (timers \ {t}) \cup {[t EXCEPT !.due = t.due + t.interval,
                                                 !.fired = t.fired + 1]}
    /\ UNCHANGED <<intervalId, currentInterval, listeners, nextTimerId, clock, notified,
                   tokens, fan>>
    /\ pmArg' = NoArg
    /\ UNCHANGED <<snapshot, used>>
    /\ UNCHANGED <<kvars, svars, xvars>>

\* time passes, up to the next armed timer's due time
Tick ==
    /\ fan = NoFan
    /\ clock < MaxClock
    /\ \A t \in timers : t.due > clock
    /\ pmOp' = "tick"
    /\ clock' = IF \E t \in timers : t.due < clock + ClockStep
                THEN CHOOSE d \in {t.due : t \in timers} :
                        \A t \in timers : d <= t.due
                ELSE clock + ClockStep
    /\ UNCHANGED <<intervalId, currentInterval, listeners, timers, nextTimerId, inflight,
                   scanCount, notified, tokens, fan>>
    /\ pmArg' = NoArg
    /\ UNCHANGED <<snapshot, used>>
    /\ UNCHANGED <<kvars, svars, xvars>>

\* Delivers notifying whatever the scan returned
Delivers_Always(success) == TRUE

\* Delivers dropping the result of a scan that completes after stop()
Delivers_OnlyRunning(success) == success /\ intervalId # 0

\* fetchAndNotify: if (result.success)
Delivers(success) == success

\* fetchAndNotify after its await: getPortList() of scan id resolved
ScanComplete(id, success, data) ==
    /\ fan = NoFan
    /\ id \in inflight
    /\ inflight' = inflight \ {id}
    /\ pmOp' = "scanDone"
    /\ fan' = IF Delivers(success) /\ listeners # <<>>
              THEN [scan |-> id, data |-> data, idx |-> 1, base |-> Len(tokens)]
              ELSE NoFan
    /\ notified' = <<>>
    /\ UNCHANGED <<intervalId, currentInterval, listeners, timers, nextTimerId, clock,
                   scanCount, tokens>>
    /\ snapshot' = IF fan' = NoFan THEN <<>> ELSE listeners
    /\ pmArg' = [token |-> 0, ok |-> success, ms |-> 0]
    /\ UNCHANGED used
    /\ UNCHANGED <<kvars, svars, xvars>>

\* what a subscriber does when it is invoked: nothing to the manager, invoke
\* an unsubscribe token, or register a callback
PlainAct == [do |-> "nothing", token |-> 0, callback |-> ""]
CallbackActs == {PlainAct}
    \cup [do : {"unsubscribe"}, token : 1..MaxTokens, callback : {""}]
    \cup [do : {"onUpdate"}, token : {0}, callback : Callbacks]

\* Notify iterating the array as it was when the notification began
Notify_Snapshot(act) ==
    /\ fan # NoFan
    /\ pmOp' = "notify"
    /\ notified' = Append(notified, [listener |-> snapshot[fan.idx],
                                     scan |-> fan.scan, data |-> fan.data])
    /\ \/ /\ act.do = "nothing"
          /\ UNCHANGED <<listeners, tokens>>
       \/ /\ act.do = "unsubscribe"
          /\ act.token \in 1..Len(tokens)
          /\ listeners' = Unsubscribed(listeners, tokens[act.token])
          /\ UNCHANGED tokens
       \/ /\ act.do = "onUpdate"
          /\ Len(tokens) < MaxTokens
          /\ listeners' = Append(listeners, act.callback)
          /\ tokens' = Append(tokens, act.callback)
    /\ fan' = IF fan.idx + 1 <= Len(snapshot)
              THEN [fan EXCEPT !.idx = fan.idx + 1]
              ELSE NoFan
    /\ UNCHANGED <<intervalId, currentInterval, timers, nextTimerId, clock, inflight,
                   scanCount>>
    /\ used' = IF act.do = "unsubscribe" THEN used \cup {act.token} ELSE used
    /\ snapshot' = IF fan' = NoFan THEN <<>> ELSE snapshot
    /\ pmArg' = [token |-> act.token, ok |-> FALSE, ms |-> 0]
    /\ UNCHANGED <<kvars, svars, xvars>>

\* fetchAndNotify: one iteration of for (const listener of listeners)
Notify(act) ==
    /\ fan # NoFan
    /\ pmOp' = "notify"
    /\ notified' = Append(notified, [listener |-> listeners[fan.idx],
                                     scan |-> fan.scan, data |-> fan.data])
    /\ \/ /\ act.do = "nothing"
          /\ UNCHANGED <<listeners, tokens>>
       \/ /\ act.do = "unsubscribe"
          /\ act.token \in 1..Len(tokens)
          /\ listeners' = Unsubscribed(listeners, tokens[act.token])
          /\ UNCHANGED tokens
       \/ /\ act.do = "onUpdate"
          /\ Len(tokens) < MaxTokens
          /\ listeners' = Append(listeners, act.callback)
          /\ tokens' = Append(tokens, act.callback)
    /\ fan' = IF fan.idx + 1 <= Len(listeners')
              THEN [fan EXCEPT !.idx = fan.idx + 1]
              ELSE NoFan
    /\ UNCHANGED <<intervalId, currentInterval, timers, nextTimerId, clock, inflight,
                   scanCount>>
    /\ used' = IF act.do = "unsubscribe" THEN used \cup {act.token} ELSE used
    /\ snapshot' = IF fan' = NoFan THEN <<>> ELSE snapshot
    /\ pmArg' = [token |-> act.token, ok |-> FALSE, ms |-> 0]
    /\ UNCHANGED <<kvars, svars, xvars>>

\* createPollingManager(getPortList, initialInterval)
InitPoll ==
    /\ currentInterval \in InitialIntervals
    /\ PollIdle
    /\ sigtermTimeout = KILL_SIGTERM
    /\ KillIdle
    /\ platform = "darwin"
    /\ ScanIdle
    /\ FnIdle

\* the manager over time, with subscribers that leave the manager alone
NextPoll ==
    \/ Start
    \/ Stop
    \/ \E ms \in Intervals : SetInterval(ms)
    \/ \E callback \in Callbacks : Len(tokens) < MaxPollSubs /\ OnUpdate(callback)
    \/ \E t \in timers : TimerFire(t)
    \/ Tick
    \/ \E id \in inflight, data \in PortLists : ScanComplete(id, TRUE, data)
    \/ \E id \in inflight : ScanComplete(id, FALSE, "")
    \/ Notify(PlainAct)

SpecPoll == InitPoll /\ [][NextPoll]_vars

\* the subscriber list: registrations, tokens and the notification of the
\* scan start() makes, the subscribers invoking tokens and registering
\* callbacks while they are notified; no time passes
NextSubs ==
    \/ Start
    \/ \E callback \in Callbacks : OnUpdate(callback)
    \/ \E k \in 1..MaxTokens : Unsubscribe(k)
    \/ \E id \in inflight, data \in PortLists : ScanComplete(id, TRUE, data)
    \/ \E id \in inflight : ScanComplete(id, FALSE, "")
    \/ \E act \in CallbackActs : Notify(act)

SpecSubs == InitPoll /\ [][NextSubs]_vars

(***************************************************************************)
(* Settings store wired to the polling manager                             *)
(***************************************************************************)
\* the values a key of the store may be set to
SettingsValues(key) ==
    CASE key = "pollingInterval" -> Intervals
      [] key = "alwaysOnTop" -> BOOLEAN
      [] key = "sortColumn" -> {"port", "pid"}
      [] key = "sortDirection" -> {"asc", "desc"}
      [] key = "filterText" -> {"", "node"}
SettingsKeys ==
    {"pollingInterval", "alwaysOnTop", "sortColumn", "sortDirection", "filterText"}

\* WatchedKeys with the polling interval only
WatchedKeys_OnlyInterval == {"pollingInterval"}

\* createSettingsStore: the keys it registers store.onDidChange for
WatchedKeys == {"pollingInterval", "alwaysOnTop", "sortColumn", "sortDirection"}

\* getSettings(): the four keys it reads from the store
GetSettings(store) ==
    [k \in {"pollingInterval", "alwaysOnTop", "sortColumn", "sortDirection"} |-> store[k]]

\* the store changes the value of a key: for a watched key its onDidChange
\* listener runs notifyChange, which reads the settings and calls the
\* callback main registered, pollingManager.setInterval(settings.pollingInterval)
StoreChange(key, value) ==
    /\ value # settings[key]
    /\ lastChange.n < MaxChanges
    /\ settings' = [settings EXCEPT ![key] = value]
    /\ lastChange' = [key |-> key, at |-> clock, n |-> lastChange.n + 1]
    /\ IF key \in WatchedKeys
       THEN SetIntervalBody(GetSettings(settings').pollingInterval)
       ELSE UNCHANGED pvars
    /\ UNCHANGED <<kvars, svars, taskkills, fpc, fin, fout, app>>

\* the callback main registers with pollingManager.onUpdate when it is loaded
MainListener == "sendPortListUpdate"

\* mainWindowService.create(settings, onBoundsChange): the repository's
\* window service reads settings.windowBounds.x and throws a TypeError when
\* the settings have no windowBounds
CreateThrows(window, s) == window = "window.ts" /\ "windowBounds" \notin DOMAIN s

\* the callback of app.whenReady(): getSettings(), mainWindowService.create
\* and, when create returned, pollingManager.start()
Ready ==
    /\ app.ready = "no"
    /\ IF CreateThrows(app.window, GetSettings(settings))
       THEN /\ app' = [app EXCEPT !.ready = "threw"]
            /\ UNCHANGED pvars
       ELSE /\ app' = [app EXCEPT !.ready = "started"]
            /\ StartBody
    /\ UNCHANGED <<kvars, svars, taskkills, fpc, fin, fout, settings, lastChange>>

\* the handler of 'window-all-closed', emitted once the windows that were
\* created are closed: pollingManager.stop()
WindowAllClosed ==
    /\ app.ready = "started"
    /\ Stop

\* main once it is loaded: the store, createPollingManager(getPortList,
\* settingsStore.getSettings().pollingInterval) and the onUpdate registration
InitSettings ==
    /\ settings \in [pollingInterval : InitialIntervals, alwaysOnTop : {FALSE},
                      sortColumn : {"port"}, sortDirection : {"asc"},
                      filterText : {""}]
    /\ lastChange = NoChange
    /\ app \in [window : WindowServices, ready : {"no"}]
    /\ currentInterval = GetSettings(settings).pollingInterval
    /\ intervalId = 0
    /\ listeners = <<MainListener>>
    /\ tokens = <<MainListener>>
    /\ timers = {}
    /\ nextTimerId = 1
    /\ clock = 0
    /\ inflight = {}
    /\ scanCount = 0
    /\ notified = <<>>
    /\ fan = NoFan
    /\ snapshot = <<>>
    /\ used = {}
    /\ pmArg = NoArg
    /\ pmOp = "onUpdate"
    /\ sigtermTimeout = KILL_SIGTERM
    /\ KillIdle
    /\ platform = "darwin"
    /\ ScanIdle
    /\ fpc = "idle" /\ fin = <<>> /\ fout = <<>> /\ taskkills = <<>>

\* the application over time: the app becomes ready, its windows are
\* closed, the store changes, the timer fires, scans complete and their
\* results are delivered to main's listener
NextSettings ==
    \/ Ready
    \/ WindowAllClosed
    \/ \E key \in SettingsKeys : \E value \in SettingsValues(key) : StoreChange(key, value)
    \/ \E t \in timers : TimerFire(t)
    \/ Tick
    \/ \E id \in inflight, data \in PortLists : ScanComplete(id, TRUE, data)
    \/ \E id \in inflight : ScanComplete(id, FALSE, "")
    \/ Notify(PlainAct)

SpecSettings == InitSettings /\ [][NextSettings]_vars

(***************************************************************************)
(* Port scanner                                                            *)
(***************************************************************************)
Platforms == {"darwin", "linux", "win32"}

\* parseInt of a token that is not a number
NaN == -1

ScanPids == {11, 22}
ScanPorts == {3000, 8080}
\* the local address forms: *:port, d.d.d.d:port, [::1]:port
Addrs == {"wild", "v4", "v6"}
ExecMessages == {"Command failed", "spawn ENOENT"}
Dirs == {"/srv/app"}

\* command lines are sequences of path and word tokens, "/" and " " being
\* the separators that split() looks for
NodeCommand == <<"node">>
PythonCommand == <<"python3">>
FullCommand == <<"/", "usr", "/", "bin", "/", "node", " ", " ", "server.js">>
ParentCommands ==
    {<<"zsh">>,
     <<"/", "sbin", "/", "launchd">>,
     <<"/", "usr", "/", "bin", "/", "node", " ", "/", "srv", "/", "app.js">>}

\* all sequences over S of length at most n
SeqsUpTo(S, n) == UNION {[1..k -> S] : k \in 0..n}

\* one line of the output of lsof / ss / netstat: its kind (a header, a
\* socket in LISTEN state, a socket in another state), the form of the
\* local address, the pid token (NaN when the line has none), the port and
\* the command name
HeaderLine == [state |-> "header", addr |-> "wild", pid |-> NaN, port |-> 0,
               command |-> <<>>]
SocketLines ==
    [state : {"LISTEN"}, addr : Addrs, pid : {11}, port : {3000},
     command : {NodeCommand}]
    \cup {[state |-> "LISTEN", addr |-> "v4", pid |-> p, port |-> q,
            command |-> IF p = 11 THEN NodeCommand ELSE PythonCommand] :
                p \in ScanPids, q \in ScanPorts}
    \cup {HeaderLine,
          [state |-> "ESTABLISHED", addr |-> "v4", pid |-> 11, port |-> 3000,
           command |-> NodeCommand],
          [state |-> "LISTEN", addr |-> "v4", pid |-> NaN, port |-> 3000,
           command |-> NodeCommand]}

\* one line of the output of lsof -d cwd: the pid token, the path, and
\* whether the line has the cwd and DIR columns
CwdHeader == [cwd |-> FALSE, pid |-> NaN, dir |-> ""]
CwdLines ==
    [cwd : {TRUE}, pid : ScanPids, dir : Dirs] \cup {CwdHeader}

\* one line of the output of ps -o pid=,ppid=,command= or of wmic ... get
\* ProcessId,ParentProcessId,CommandLine: pid, ppid and command line
InfoLines ==
    [pid : ScanPids, ppid : {0, 1}, command : {FullCommand}]
    \cup {[pid |-> NaN, ppid |-> NaN, command |-> <<"Node">>],
          [pid |-> 11, ppid |-> NaN, command |-> FullCommand]}

\* one line of the output of tasklist /fo csv /v: image name and pid
TaskLines ==
    [pid : ScanPids \cup {NaN, 33}, command : {<<"node.exe">>}]
    \cup {[pid |-> 11, command |-> <<>>]}

\* one line of the output of ps -o pid=,command= or of wmic ... get
\* ProcessId,CommandLine for the parents
ParentLines ==
    [pid : {1}, command : ParentCommands] \cup {[pid |-> NaN, command |-> <<>>]}

\* what one execFn call does: it resolves with the command's output, or
\* rejects with an Error that has a message and, after a timeout, killed
ExecOk(stdout) == [kind |-> "ok", killed |-> FALSE, message |-> "", stdout |-> stdout]
ExecErrors(messages) ==
    [kind : {"error"}, killed : BOOLEAN, message : messages, stdout : {<<>>}]
Step1Outcomes ==
    {ExecOk(o) : o \in SeqsUpTo(SocketLines, MaxLines)} \cup ExecErrors(ExecMessages)
CwdOutcomes ==
    {ExecOk(o) : o \in SeqsUpTo(CwdLines, MaxInfoLines)} \cup ExecErrors({"Command failed"})
InfoOutcomes ==
    {ExecOk(o) : o \in SeqsUpTo(InfoLines, MaxInfoLines)} \cup ExecErrors({"Command failed"})
TaskOutcomes ==
    {ExecOk(o) : o \in SeqsUpTo(TaskLines, MaxInfoLines)} \cup ExecErrors({"Command failed"})
ParentOutcomes ==
    {ExecOk(o) : o \in SeqsUpTo(ParentLines, MaxInfoLines)} \cup ExecErrors({"Command failed"})

\* an execFn call just made, and the same call once it has settled
Invocation(cmd) == [cmd |-> cmd, out |-> "pending", message |-> ""]
\* one execFn call per pid of the list
Invoke_PerPid(es, cmd, pids) ==
    es \o [i \in 1..Cardinality(pids) |-> Invocation(cmd)]

\* execFn(`<cmd> ${pidList}`): one call for the whole list of pids
Invoke(es, cmd, pids) == Append(es, Invocation(cmd))

Settle(es, out) ==
    [es EXCEPT ![Len(es)] =
        [cmd |-> es[Len(es)].cmd,
         out |-> IF out.kind = "ok" THEN "ok"
                 ELSE IF out.killed THEN "killed" ELSE "failed",
         message |-> out.message]]

\* Get that never finds the key
Get_IgnoresMap(m, k, default) == default

\* Map.prototype.get with a default
Get(m, k, default) == IF k \in DOMAIN m THEN m[k] ELSE default

\* the map a sequence of Map.prototype.set(line.pid, ...) calls builds: the
\* last line of a pid wins
LastOf(ls, p) ==
    ls[CHOOSE i \in 1..Len(ls) : ls[i].pid = p /\ \A j \in (i + 1)..Len(ls) : ls[j].pid # p]
PidsOf(ls) == {ls[i].pid : i \in 1..Len(ls)}

\* Array.prototype.lastIndexOf, 0 when absent
LastIndexOf(seq, x) ==
    IF \E i \in 1..Len(seq) : seq[i] = x
    THEN CHOOSE i \in 1..Len(seq) : seq[i] = x /\ \A j \in (i + 1)..Len(seq) : seq[j] # x
    ELSE 0

\* split(/\s+/) ... join(' '): runs of spaces become one space
RECURSIVE Collapse(_)
Collapse(cmd) ==
    IF Len(cmd) <= 1 THEN cmd
    ELSE IF cmd[1] = " " /\ cmd[2] = " " THEN Collapse(Tail(cmd))
    ELSE <<cmd[1]>> \o Collapse(Tail(cmd))

\* LsofAccepts without the test for (LISTEN)
LsofAccepts_AnyState(line) == line.port # NaN /\ line.pid # NaN

\* parseLsofLine: the line matches TCP <addr>:<port> (LISTEN), whatever the
\* address form, with a port made of digits, and has a numeric token
LsofAccepts(line) == line.state = "LISTEN" /\ line.port # NaN /\ line.pid # NaN

RawPortInfo(line) ==
    [pid |-> line.pid, port |-> line.port, command |-> line.command,
     protocol |-> "TCP"]

\* parseLsofOutput: the first line is skipped as the header
ParseLsofOutput(lines) ==
    IF Len(lines) <= 1 THEN <<>>
    ELSE LET kept == SelectSeq(Tail(lines), LsofAccepts)
         IN  [i \in 1..Len(kept) |-> RawPortInfo(kept[i])]

PortInfo(line, command) ==
    [pid |-> line.pid, port |-> line.port, command |-> command,
     directory |-> "Unknown", protocol |-> "TCP", parentPid |-> 0,
     parentCommand |-> <<>>]

\* parseSsOutput: the address before the port is made of digits, dots,
\* stars and colons, so a bracketed address does not match
SsAccepts(line) ==
    /\ line.state = "LISTEN"
    /\ line.addr \in {"wild", "v4"}
    /\ line.port # NaN
    /\ line.pid # NaN

ParseSsOutput(lines) ==
    LET kept == SelectSeq(lines, SsAccepts)
    IN  [i \in 1..Len(kept) |-> PortInfo(kept[i], kept[i].command)]

\* parseNetstatOutput: state LISTENING, a numeric pid, and :<port> at the
\* end of the local address
NetstatAccepts(line) == line.state = "LISTEN" /\ line.port # NaN /\ line.pid # NaN

PidCommand(pid) == <<"PID:" \o ToString(pid)>>

ParseNetstatOutput(lines) ==
    LET kept == SelectSeq(lines, NetstatAccepts)
    IN  [i \in 1..Len(kept) |-> PortInfo(kept[i], PidCommand(kept[i].pid))]

\* parseCwdLine
CwdAccepts(line) == line.cwd /\ line.pid # NaN

\* parseCwdOutput: the first line is skipped as the header
ParseCwdOutput(lines) ==
    IF Len(lines) <= 1 THEN EmptyMap
    ELSE LET kept == SelectSeq(Tail(lines), CwdAccepts)
         IN  [p \in PidsOf(kept) |-> LastOf(kept, p).dir]

InfoAccepts(line) == line.pid # NaN /\ line.ppid # NaN /\ line.command # <<>>

\* parseProcessInfo
ParseProcessInfo(lines) ==
    LET kept == SelectSeq(lines, InfoAccepts)
    IN  [p \in PidsOf(kept) |-> [command |-> Collapse(LastOf(kept, p).command),
                                 ppid |-> LastOf(kept, p).ppid]]

WmicAccepts(line) == line.pid # NaN /\ line.command # <<>>

\* parseWmicOutput: ppid: isNaN(ppid) ? 0 : ppid
ParseWmicOutput(lines) ==
    LET kept == SelectSeq(lines, WmicAccepts)
    IN  [p \in PidsOf(kept) |->
            [command |-> LastOf(kept, p).command,
             ppid |-> IF LastOf(kept, p).ppid = NaN THEN 0 ELSE LastOf(kept, p).ppid]]

\* parseTasklistOutput
ParseTasklistOutput(lines, pids) ==
    LET TaskAccepts(line) == line.pid # NaN /\ line.pid \in pids
        kept == SelectSeq(lines, TaskAccepts)
    IN  [p \in PidsOf(kept) |-> [command |-> LastOf(kept, p).command, ppid |-> 0]]

ParentAccepts(line) == line.pid # NaN /\ line.command # <<>>

\* the loop over parentPsOutput, and parseWmicParentOutput
ParseParentOutput(lines) ==
    LET kept == SelectSeq(lines, ParentAccepts)
    IN  [p \in PidsOf(kept) |-> LastOf(kept, p).command]

\* [...new Set(ports.map(p => p.pid))]
UniquePids(ps) == {ps[i].pid : i \in 1..Len(ps)}

\* [...new Set(ports.map(p => p.pid))]: the pids in the order they first occur
UniquePidSeq(ps) ==
    LET first == SelectSeq([i \in 1..Len(ps) |-> i],
                           LAMBDA i : \A j \in 1..(i - 1) : ps[j].pid # ps[i].pid)
    IN  [k \in 1..Len(first) |-> ps[first[k]].pid]

\* cwdMap.set(pid, cwd)
Put(map, k, v) == [x \in DOMAIN map \cup {k} |-> IF x = k THEN v ELSE map[x]]

\* what one readlink call does: it resolves with the directory, or rejects
ReadlinkOutcomes == [kind : {"ok"}, cwd : Dirs] \cup {[kind |-> "error", cwd |-> ""]}

\* ParentPidsOf without the filter ppid > 0
ParentPidsOf_KeepsZero(pim) == {pim[p].ppid : p \in DOMAIN pim}

\* the ppid values of the process map that are > 0
ParentPidsOf(pim) == {pim[p].ppid : p \in DOMAIN pim} \ {0}

\* parentCmd.split('/').pop()?.split(' ')[0]
ParentExec(cmd) ==
    LET seg == SubSeq(cmd, LastIndexOf(cmd, "/") + 1, Len(cmd))
    IN  IF IndexOf(seg, " ") = 0 THEN seg ELSE SubSeq(seg, 1, IndexOf(seg, " ") - 1)

\* Seen with nothing ever recorded
Seen_Nothing(raws, i) == {}

\* mergeCwdWithPorts: the keys seen before the i-th raw record
Seen(raws, i) == {<<raws[j].pid, raws[j].port>> : j \in 1..(i - 1)}

\* mergeCwdWithPorts
MergeCwdWithPorts(raws, cwd, pim, pcm) ==
    LET first == SelectSeq([i \in 1..Len(raws) |-> i],
                           LAMBDA i : <<raws[i].pid, raws[i].port>> \notin Seen(raws, i))
        Entry(raw) ==
            LET ppid == IF raw.pid \in DOMAIN pim THEN pim[raw.pid].ppid ELSE 0
            IN  [pid |-> raw.pid,
                 port |-> raw.port,
                 command |-> IF raw.pid \in DOMAIN pim THEN pim[raw.pid].command
                             ELSE raw.command,
                 directory |-> Get(cwd, raw.pid, "Unknown"),
                 protocol |-> raw.protocol,
                 parentPid |-> ppid,
                 parentCommand |-> ParentExec(Get(pcm, ppid, <<>>))]
    IN  [k \in 1..Len(first) |-> Entry(raws[first[k]])]

\* scanPortsLinux and scanPortsWindows, the merge step: ports.map(...)
MergePorts(plat, ps, cwd, pim, pcm) ==
    [i \in 1..Len(ps) |->
        \* processInfo?.ppid || 0 and processInfo?.command || port.command
        LET parentPid == IF ps[i].pid \in DOMAIN pim /\ pim[ps[i].pid].ppid # NaN
                         THEN pim[ps[i].pid].ppid ELSE 0
        IN  [ps[i] EXCEPT
                !.command = IF ps[i].pid \in DOMAIN pim /\ pim[ps[i].pid].command # <<>>
                            THEN pim[ps[i].pid].command
                            ELSE ps[i].command,
                !.directory = IF plat = "linux" THEN Get(cwd, ps[i].pid, "Unknown")
                              ELSE "Unknown",
                !.parentPid = parentPid,
                !.parentCommand = Get(pcm, parentPid, <<>>)]]

Merged(plat, ps, cwd, pim, pcm) ==
    IF plat = "darwin" THEN MergeCwdWithPorts(ps, cwd, pim, pcm)
    ELSE MergePorts(plat, ps, cwd, pim, pcm)

ScanSuccess(data) == [success |-> TRUE, type |-> "", message |-> "", data |-> data]

TimeoutMessage(plat) ==
    CASE plat = "darwin" -> "lsof command timed out"
      [] plat = "linux" -> "ss command timed out"
      [] plat = "win32" -> "netstat command timed out"

\* ScanFailure without its err.killed branch
ScanFailure_NoTimeout(plat, err) ==
    [success |-> FALSE, type |-> "COMMAND_FAILED", message |-> err.message,
     data |-> <<>>]

\* ScanFailure reporting every failure that is not a timeout as PARSE_ERROR
ScanFailure_ParseError(plat, err) ==
    [success |-> FALSE, type |-> IF err.killed THEN "TIMEOUT" ELSE "PARSE_ERROR",
     message |-> err.message, data |-> <<>>]

\* the outer catch of scanPortsDarwin / scanPortsLinux / scanPortsWindows
ScanFailure(plat, err) ==
    IF err.killed
    THEN [success |-> FALSE, type |-> "TIMEOUT", message |-> TimeoutMessage(plat),
          data |-> <<>>]
    ELSE [success |-> FALSE, type |-> "COMMAND_FAILED", message |-> err.message,
          data |-> <<>>]

\* NoSockets never true
NoSockets_Never(ps) == FALSE

\* if (rawPorts.length === 0)
NoSockets(ps) == Len(ps) = 0

Step1Command(plat) ==
    CASE plat = "darwin" -> "lsof" [] plat = "linux" -> "ss" [] plat = "win32" -> "netstat"

ParseStep1(plat, lines) ==
    CASE plat = "darwin" -> ParseLsofOutput(lines)
      [] plat = "linux" -> ParseSsOutput(lines)
      [] plat = "win32" -> ParseNetstatOutput(lines)

\* getPortList(): dispatch on the platform, up to the await of step 1
GetPortList ==
    /\ spc \in {"idle", "done"}
    /\ spc' = "step1"
    /\ execs' = <<Invocation(Step1Command(platform))>>
    /\ ports' = <<>>
    /\ cwdMap' = EmptyMap
    /\ processInfoMap' = EmptyMap
    /\ parentCommandMap' = EmptyMap
    /\ readlinks' = 0
    /\ sresult' = ScanPending
    /\ UNCHANGED <<platform, kvars, pvars, xvars>>

\* step 1 settled: parse, return at once when nothing was found, otherwise
\* go on to the working directories (macOS: lsof -d cwd, Linux: readlink per
\* pid) or to the process information (Windows: wmic)
Step1Done(out) ==
    /\ spc = "step1"
    /\ UNCHANGED <<platform, cwdMap, processInfoMap, parentCommandMap, readlinks, kvars, pvars, xvars>>
    /\ IF out.kind = "error"
       THEN /\ sresult' = ScanFailure(platform, out)
            /\ spc' = "done"
            /\ execs' = Settle(execs, out)
            /\ UNCHANGED ports
       ELSE /\ ports' = ParseStep1(platform, out.stdout)
            /\ IF NoSockets(ports')
               THEN /\ sresult' = ScanSuccess(<<>>)
                    /\ spc' = "done"
                    /\ execs' = Settle(execs, out)
               ELSE /\ UNCHANGED sresult
                    /\ spc' = CASE platform = "darwin" -> "cwd"
                                [] platform = "linux" -> "readlink"
                                [] platform = "win32" -> "wmic"
                    /\ execs' = CASE platform = "darwin" ->
                                        Invoke(Settle(execs, out), "lsof -d cwd", UniquePids(ports'))
                                  [] platform = "linux" -> Settle(execs, out)
                                  [] platform = "win32" ->
                                        Invoke(Settle(execs, out), "wmic", UniquePids(ports'))

\* CwdDone with the failure of step 2 reaching the outer catch
CwdDone_Fatal(out) ==
    /\ spc = "cwd"
    /\ IF out.kind = "ok"
       THEN /\ cwdMap' = ParseCwdOutput(out.stdout)
            /\ execs' = Invoke(Settle(execs, out), "ps", UniquePids(ports))
            /\ spc' = "ps"
            /\ UNCHANGED sresult
       ELSE /\ sresult' = ScanFailure(platform, out)
            /\ execs' = Settle(execs, out)
            /\ spc' = "done"
            /\ UNCHANGED cwdMap
    /\ UNCHANGED <<platform, ports, processInfoMap, parentCommandMap, readlinks, kvars, pvars, xvars>>

\* scanPortsDarwin, step 2 settled; step 3 is invoked
CwdDone(out) ==
    /\ spc = "cwd"
    /\ cwdMap' = IF out.kind = "ok" THEN ParseCwdOutput(out.stdout) ELSE EmptyMap
    /\ execs' = Invoke(Settle(execs, out), "ps", UniquePids(ports))
    /\ spc' = "ps"
    /\ UNCHANGED <<platform, ports, processInfoMap, parentCommandMap, sresult, readlinks, kvars, pvars, xvars>>

\* scanPortsLinux, step 2, one iteration of for (const pid of uniquePids):
\* the awaited readlink of /proc/<pid>/cwd settles; resolved, its value is
\* put in the map, rejected, it is ignored; the readlink of the next pid is
\* called, or step 3 is invoked after the last one
ReadlinkDone(out) ==
    /\ spc = "readlink"
    /\ LET pids == UniquePidSeq(ports)
           pid == pids[readlinks + 1]
       IN  /\ cwdMap' = IF out.kind = "ok" THEN Put(cwdMap, pid, out.cwd) ELSE cwdMap
           /\ readlinks' = readlinks + 1
           /\ IF readlinks' < Len(pids)
              THEN UNCHANGED <<spc, execs>>
              ELSE /\ execs' = Invoke(execs, "ps", UniquePids(ports))
                   /\ spc' = "ps"
    /\ UNCHANGED <<platform, ports, processInfoMap, parentCommandMap, sresult, kvars, pvars, xvars>>

\* the rest of the scan once the process map is known: step 4 is invoked
\* when some parent pid is > 0, otherwise the data is merged and returned
AfterProcessInfo(pim, es, parentCmd) ==
    /\ processInfoMap' = pim
    /\ IF ParentPidsOf(pim) # {}
       THEN /\ execs' = Invoke(es, parentCmd, ParentPidsOf(pim))
            /\ spc' = "parent"
            /\ UNCHANGED sresult
       ELSE /\ execs' = es
            /\ spc' = "done"
            /\ sresult' = ScanSuccess(Merged(platform, ports, cwdMap, pim, EmptyMap))
    /\ UNCHANGED <<platform, ports, cwdMap, parentCommandMap, readlinks, kvars, pvars, xvars>>

\* scanPortsDarwin / scanPortsLinux, step 3 settled
PsDone(out) ==
    /\ spc = "ps"
    /\ AfterProcessInfo(IF out.kind = "ok" THEN ParseProcessInfo(out.stdout) ELSE EmptyMap,
                        Settle(execs, out), "ps parents")

\* scanPortsWindows, the wmic query settled: tasklist is invoked when it failed
WmicDone(out) ==
    /\ spc = "wmic"
    /\ IF out.kind = "ok"
       THEN AfterProcessInfo(ParseWmicOutput(out.stdout), Settle(execs, out), "wmic parents")
       ELSE /\ execs' = Invoke(Settle(execs, out), "tasklist", UniquePids(ports))
            /\ spc' = "tasklist"
            /\ UNCHANGED <<platform, ports, cwdMap, processInfoMap, parentCommandMap,
                           sresult, readlinks, kvars, pvars, xvars>>

\* scanPortsWindows, the tasklist query settled
TasklistDone(out) ==
    /\ spc = "tasklist"
    /\ AfterProcessInfo(IF out.kind = "ok"
                        THEN ParseTasklistOutput(out.stdout, UniquePids(ports))
                        ELSE EmptyMap,
                        Settle(execs, out), "wmic parents")

\* the parent command query settled: the data is merged and returned
ParentDone(out) ==
    /\ spc = "parent"
    /\ parentCommandMap' = IF out.kind = "ok" THEN ParseParentOutput(out.stdout)
                           ELSE EmptyMap
    /\ execs' = Settle(execs, out)
    /\ spc' = "done"
    /\ sresult' = ScanSuccess(Merged(platform, ports, cwdMap, processInfoMap,
                                     parentCommandMap'))
    /\ UNCHANGED <<platform, ports, cwdMap, processInfoMap, readlinks, kvars, pvars, xvars>>

\* createPortScanner(execFn) on one of the platforms
InitScan ==
    /\ platform \in Platforms
    /\ ScanIdle
    /\ FnIdle
    /\ sigtermTimeout = KILL_SIGTERM
    /\ KillIdle
    /\ currentInterval = DEFAULT_POLLING_INTERVAL
    /\ PollIdle

NextScan ==
    \/ GetPortList
    \/ \E out \in Step1Outcomes : Step1Done(out)
    \/ \E out \in CwdOutcomes : CwdDone(out)
    \/ \E out \in ReadlinkOutcomes : ReadlinkDone(out)
    \/ \E out \in InfoOutcomes : PsDone(out)
    \/ \E out \in InfoOutcomes : WmicDone(out)
    \/ \E out \in TaskOutcomes : TasklistDone(out)
    \/ \E out \in ParentOutcomes : ParentDone(out)

SpecScan == InitScan /\ [][NextScan]_vars

(***************************************************************************)
(* parseLsofOutput, parseSsOutput and parseNetstatOutput applied on their  *)
(* own to any lines                                                        *)
(***************************************************************************)
\* a LISTEN line whose port is not made of digits
BadPortLine == [state |-> "LISTEN", addr |-> "wild", pid |-> 11, port |-> NaN,
                command |-> NodeCommand]

ParseInputs ==
    [platform : Platforms, lines : SeqsUpTo(SocketLines \cup {BadPortLine}, MaxLines)]

\* the call of the platform's parser on the output of step 1
ApplyParse ==
    /\ fpc = "in"
    /\ fout' = ParseStep1(fin.platform, fin.lines)
    /\ fpc' = "out"
    /\ UNCHANGED <<fin, taskkills, settings, lastChange, app, kvars, pvars, svars>>

InitParse ==
    /\ fpc = "in"
    /\ fin \in ParseInputs
    /\ fout = <<>>
    /\ taskkills = <<>>
    /\ StoreIdle
    /\ sigtermTimeout = KILL_SIGTERM
    /\ KillIdle
    /\ currentInterval = DEFAULT_POLLING_INTERVAL
    /\ PollIdle
    /\ platform = fin.platform
    /\ ScanIdle

NextParse == ApplyParse

SpecParse == InitParse /\ [][NextParse]_vars

(***************************************************************************)
(* mergeCwdWithPorts applied on its own to any raw records and maps        *)
(***************************************************************************)
\* the maps over some of the keys K with values in V
PartialMaps(K, V) == UNION {[D -> V] : D \in SUBSET K}

\* RawPortInfo values: two of them have the same pid and port and differ in
\* the command
RawRecords ==
    {[pid |-> 11, port |-> 3000, command |-> NodeCommand, protocol |-> "TCP"],
     [pid |-> 11, port |-> 3000, command |-> PythonCommand, protocol |-> "TCP"],
     [pid |-> 11, port |-> 8080, command |-> NodeCommand, protocol |-> "TCP"],
     [pid |-> 22, port |-> 3000, command |-> PythonCommand, protocol |-> "TCP"]}

\* the arguments of mergeCwdWithPorts; a map may hold an empty string or a
\* ppid of 0, which ?? keeps
MergeInputs ==
    [raws : SeqsUpTo(RawRecords, MaxRaws),
     cwd : PartialMaps(ScanPids, Dirs \cup {""}),
     pim : PartialMaps(ScanPids, [command : {FullCommand, <<>>}, ppid : {0, 1}]),
     pcm : PartialMaps({1}, ParentCommands)]

\* the call mergeCwdWithPorts(rawPorts, cwdMap, processInfoMap, parentCommandMap)
ApplyMerge ==
    /\ fpc = "in"
    /\ fout' = MergeCwdWithPorts(fin.raws, fin.cwd, fin.pim, fin.pcm)
    /\ fpc' = "out"
    /\ UNCHANGED <<fin, taskkills, settings, lastChange, app, kvars, pvars, svars>>

InitMerge ==
    /\ fpc = "in"
    /\ fin \in MergeInputs
    /\ fout = <<>>
    /\ taskkills = <<>>
    /\ StoreIdle
    /\ sigtermTimeout = KILL_SIGTERM
    /\ KillIdle
    /\ currentInterval = DEFAULT_POLLING_INTERVAL
    /\ PollIdle
    /\ platform = "darwin"
    /\ ScanIdle

NextMerge == ApplyMerge

SpecMerge == InitMerge /\ [][NextMerge]_vars

(***************************************************************************)
(* Properties of killProcess (Unix protocol)                               *)
(***************************************************************************)
CeilDiv(a, b) == (a + b - 1) \div b
CallIdx == 1..Len(calls)
IsProbe(i) == calls[i].signal = "0"
IsSigkill(i) == calls[i].signal = "SIGKILL"
SigkillSent == \E i \in CallIdx : IsSigkill(i)
NumProbes == Cardinality({i \in CallIdx : IsProbe(i)})
SigtermOk == calls # <<>> /\ calls[1].signal = "SIGTERM" /\ calls[1].outcome = Returned
GracefulTimedOut == waits # <<>> /\ waits[1] = "timeout"
FirstProbe(i) == i \in CallIdx /\ IsProbe(i) /\ \A j \in 1..(i - 1) : ~IsProbe(j)

\* C1: when the SIGTERM send succeeded and the graceful wait ended by timeout
\* (no probe of it reported the process gone), SIGKILL is sent to the same
\* pid as soon as the call goes on, and the call resolves with success
\* whatever the forceful wait saw, the process still alive included.
C1_EscalatesThenSucceeds ==
    (SigtermOk /\ GracefulTimedOut) =>
        /\ \A i \in CallIdx : i > 1 /\ ~IsSigkill(i) /\ (\A j \in 1..i : ~IsSigkill(j))
                                 => calls[i].outcome = Returned
        /\ kpc # "escalate" => \E i \in CallIdx : IsSigkill(i) /\ calls[i].pid = kpid
        /\ kpc = "done" => kresult = Success

C1_Witness ==
    /\ kpc = "done"
    /\ sigtermTimeout > 0
    /\ waits = <<"timeout", "timeout">>
    /\ calls[Len(calls)] = Call(kpid, "0", Returned)
    /\ kresult = Success

\* C2 as stated: when the SIGTERM send succeeded and the first existence
\* probe made after it reports ESRCH, the call resolves with success and
\* SIGKILL is never sent.
C2_Original ==
    \A i \in CallIdx :
        (SigtermOk /\ FirstProbe(i) /\ calls[i].outcome.code = "ESRCH") =>
            /\ kpc = "done"
            /\ kresult = Success
            /\ ~SigkillSent

\* C2 amended: when the SIGTERM send succeeded and the call made right after
\* it is an existence probe, that is the first probe of the graceful wait,
\* and that probe reports ESRCH, the call resolves with success at once and
\* SIGKILL is never sent.
C2_GoneAtFirstGracefulProbe ==
    (SigtermOk /\ Len(calls) >= 2 /\ IsProbe(2) /\ calls[2].outcome.code = "ESRCH") =>
        /\ kpc = "done"
        /\ kresult = Success
        /\ Len(calls) = 2
        /\ waits = <<"exited">>

C2_Witness ==
    /\ kpc = "done"
    /\ Len(calls) = 2
    /\ calls[1] = Call(kpid, "SIGTERM", Returned)
    /\ IsProbe(2) /\ calls[2].outcome.code = "ESRCH"
    /\ kresult = Success

\* C3: when the SIGTERM send throws ESRCH, the call resolves with NOT_FOUND
\* carrying the pid passed in, and no other killFn call (probe or SIGKILL) is
\* made.
C3_SigtermEsrchIsNotFound ==
    (calls # <<>> /\ calls[1].outcome.code = "ESRCH") =>
        /\ kpc = "done"
        /\ kresult = Failure("NOT_FOUND", kpid, "")
        /\ calls[1].pid = kpid
        /\ Len(calls) = 1

C3_Witness ==
    /\ kpc = "done"
    /\ calls # <<>> /\ calls[1].signal = "SIGTERM" /\ calls[1].outcome.code = "ESRCH"
    /\ kresult.type = "NOT_FOUND" /\ kresult.pid = 777

\* C4: when the SIGTERM send throws EPERM, the call resolves with
\* PERMISSION_DENIED carrying the pid, and no other killFn call (probe or
\* SIGKILL) is made.
C4_SigtermEpermIsPermissionDenied ==
    (calls # <<>> /\ calls[1].outcome.code = "EPERM") =>
        /\ kpc = "done"
        /\ kresult = Failure("PERMISSION_DENIED", kpid, "")
        /\ calls[1].pid = kpid
        /\ Len(calls) = 1

C4_Witness ==
    /\ kpc = "done"
    /\ calls # <<>> /\ calls[1].signal = "SIGTERM" /\ calls[1].outcome.code = "EPERM"
    /\ kresult.type = "PERMISSION_DENIED" /\ kresult.pid = 12345

\* C5: an error whose code is neither ESRCH nor EPERM, thrown by the SIGTERM
\* send or by a probe of the graceful wait, ends the call with UNKNOWN
\* carrying that error's message, and SIGKILL is not sent.
C5_OtherErrorIsUnknown ==
    \A i \in CallIdx :
        (/\ calls[i].outcome.code \in {"EIO", "NONE"}
         /\ i = 1 \/ (IsProbe(i) /\ \A j \in 1..i : ~IsSigkill(j))) =>
            /\ kpc = "done"
            /\ kresult = Failure("UNKNOWN", 0, calls[i].outcome.message)
            /\ i = Len(calls)
            /\ ~SigkillSent

C5_Witness ==
    /\ kpc = "done"
    /\ Len(calls) >= 3
    /\ IsProbe(Len(calls)) /\ calls[Len(calls)].outcome = [code |-> "EIO", message |-> "boom"]
    /\ kresult = Failure("UNKNOWN", 0, "boom")

\* C6: once the graceful wait timed out, a throw of the SIGKILL send or of a
\* probe of the second wait ends the call, nothing more is sent, and the call
\* resolves with success; so does a second wait that finds the process gone
\* or that times out.
C6_EscalateErrorsIgnored ==
    GracefulTimedOut =>
        /\ \A i \in CallIdx :
              ((IsSigkill(i) \/ \E j \in 1..(i - 1) : IsSigkill(j))
                 /\ calls[i].outcome # Returned) =>
                    i = Len(calls) /\ kpc = "done"
        /\ Len(waits) = 2 => kpc = "done" /\ timeoutMs = SIGKILL_WAIT
        /\ kpc = "done" => kresult = Success

C6_Witness ==
    /\ kpc = "done"
    /\ GracefulTimedOut
    /\ \E i \in CallIdx : IsSigkill(i) /\ calls[i].outcome = Returned
    /\ calls[Len(calls)].signal = "0" /\ calls[Len(calls)].outcome.code = "EPERM"
    /\ waits = <<"timeout", "threw">>
    /\ kresult = Success

\* C7: the killFn calls of one killProcess call are ordered: the first call
\* is the only SIGTERM, a probe is made only when that SIGTERM returned,
\* SIGKILL is sent at most once, only after a graceful wait that ended by
\* timeout, and every call before it other than the SIGTERM is a probe that
\* found the process alive; all calls carry the pid passed in.
C7_SignalOrder ==
    /\ kpc # "idle" => calls # <<>>
    /\ \A i \in CallIdx :
          /\ calls[i].pid = kpid
          /\ (calls[i].signal = "SIGTERM") <=> (i = 1)
          /\ i > 1 => calls[1].outcome = Returned
          /\ IsSigkill(i) =>
                /\ GracefulTimedOut
                /\ \A j \in 2..(i - 1) : IsProbe(j) /\ calls[j].outcome = Returned
                /\ \A j \in CallIdx : IsSigkill(j) => j = i

C7_Witness ==
    /\ kpc = "done"
    /\ Len(calls) >= 5
    /\ \E i \in 3..(Len(calls) - 2) : IsSigkill(i)
    /\ waits = <<"timeout", "exited">>

ProbesOfWait ==
    Cardinality({i \in CallIdx : IsProbe(i)
                    /\ \A j \in i..Len(calls) : calls[j].signal = "0"})

C9_StartScansOnceAndArms ==
    [][/\ (pmOp' = "start" /\ intervalId = 0) =>
            /\ scanCount' = scanCount + 1
            /\ inflight' = inflight \cup {scanCount'}
            /\ \E t \in timers' :
                  /\ t = [id |-> intervalId', interval |-> currentInterval,
                          armedAt |-> clock, due |-> clock + currentInterval,
                          fired |-> 0]
                  /\ t \notin timers
                  /\ timers' = timers \cup {t}
            /\ intervalId' # 0
       /\ (pmOp' = "timer") =>
            /\ scanCount' = scanCount + 1
            /\ inflight' = inflight \cup {scanCount'}
            /\ \E t \in timers :
                  /\ t.due = clock
                  /\ timers' = (timers \ {t}) \cup
                        {[t EXCEPT !.due = clock + t.interval, !.fired = t.fired + 1]}
            /\ intervalId' = intervalId
      ]_vars

\* started, stopped and started again at time 0, then the second timer fired
C9_Witness ==
    /\ pmOp = "timer"
    /\ scanCount = 3
    /\ intervalId = 2
    /\ \E t \in timers : t.id = 2 /\ t.armedAt = 0 /\ t.fired = 1 /\ clock = t.interval

\* C10: a start() on a running manager changes nothing: no getPortList call,
\* no timer armed, the armed timer, the interval and the listeners as they
\* were; so the only armed timer is the manager's, and it has fired once per
\* elapsed interval since it was armed, whatever start() calls were made.
C10_StartWhileRunningIsNoop ==
    /\ [][(pmOp' = "start" /\ intervalId # 0) =>
            UNCHANGED <<intervalId, currentInterval, listeners, timers, nextTimerId,
                        clock, inflight, scanCount, notified, tokens, fan>>]_vars
    /\ [](\A t \in timers :
            /\ t.id = intervalId
            /\ timers = {t}
            /\ t.due = t.armedAt + (t.fired + 1) * t.interval
            /\ clock <= t.due)

\* start() was the last call, made on a manager whose timer had fired once
C10_Witness ==
    /\ pmOp = "start"
    /\ scanCount = 2
    /\ inflight = {1, 2}
    /\ \E t \in timers : t.id = intervalId /\ t.fired = 1 /\ clock = t.armedAt + t.interval

\* C11: stop() leaves the manager not running with no timer armed, and
\* changes nothing else; on a manager that is not running it changes nothing
\* at all. A manager that is not running has no armed timer, and while it
\* stays not running no getPortList call is made, however much time passes.
C11_StopDisarms ==
    /\ [][pmOp' = "stop" =>
            /\ intervalId' = 0
            /\ timers' = {}
            /\ intervalId = 0 => timers' = timers
            /\ UNCHANGED <<currentInterval, listeners, nextTimerId, clock, inflight,
                           scanCount, notified, tokens, fan>>]_vars
    /\ [](intervalId = 0 => timers = {})
    /\ [][(intervalId = 0 /\ intervalId' = 0) =>
            (scanCount' = scanCount /\ inflight' \subseteq inflight)]_vars

\* started once and stopped; time has passed beyond the first due time of
\* the timer that was armed, and no second scan was made
C11_Witness ==
    /\ pmOp = "tick"
    /\ intervalId = 0
    /\ nextTimerId = 2
    /\ scanCount = 1
    /\ clock > currentInterval

\* C12: setInterval(ms) on a running manager leaves exactly one timer armed,
\* a new one of interval ms armed at the time of the call and first due ms
\* later, which becomes the manager's timer, and makes no getPortList call;
\* a timer that fires is the manager's current timer, and its first firing
\* is one interval after it was armed.
C12_SetIntervalRearms ==
    /\ [][(pmOp' = "setInterval" /\ intervalId # 0) =>
            /\ currentInterval' \in Intervals
            /\ timers' = {[id |-> intervalId', interval |-> currentInterval',
                           armedAt |-> clock, due |-> clock + currentInterval',
                           fired |-> 0]}
            /\ intervalId' # 0
            /\ \A t \in timers : t.id # intervalId'
            /\ UNCHANGED <<clock, scanCount, inflight, listeners>>]_vars
    /\ [][pmOp' = "timer" =>
            \E t \in timers :
                /\ t.id = intervalId
                /\ timers' \ timers = {[t EXCEPT !.due = t.due + t.interval,
                                                 !.fired = t.fired + 1]}
                /\ clock = t.armedAt + (t.fired + 1) * t.interval]_vars

\* started at time 0, setInterval(2000) called at time 1000, and the new
\* timer has fired for the first time, at time 3000
C12_Witness ==
    /\ pmOp = "timer"
    /\ clock = 3000
    /\ currentInterval = 2000
    /\ intervalId = 2
    /\ scanCount = 2
    /\ timers = {[id |-> 2, interval |-> 2000, armedAt |-> 1000, due |-> 5000,
                  fired |-> 1]}

\* the step that ends a fan-out
FanEnds == fan # NoFan /\ fan' = NoFan

\* the k-th token returned by onUpdate is invoked by this step
TokenInvoked(k) == pmOp' \in {"unsubscribe", "notify"} /\ pmArg'.token = k

\* the callbacks of the registrations whose tokens are not in u, in the
\* order of their registration
Registered(u) ==
    LET idx == SelectSeq([i \in 1..Len(tokens) |-> i], LAMBDA i : i \notin u)
    IN  [j \in 1..Len(idx) |-> tokens[idx[j]]]

\* C13 as stated: when a scan returns success, the subscribers registered at
\* that moment are each invoked exactly once with that scan's result, in the
\* order of their registration, whatever onUpdate and unsubscribe calls the
\* subscribers make while they are notified.
C13_Original ==
    [][FanEnds =>
        /\ [i \in 1..Len(notified') |-> notified'[i].listener] = snapshot
        /\ \A i \in 1..Len(notified') :
              notified'[i].scan = fan.scan /\ notified'[i].data = fan.data]_vars

\* C14: when a scan returns a failure no subscriber is invoked and the
\* manager's timer, running state, interval, subscribers and scan count are
\* as they were, so the armed timer goes on firing; a scan that returns
\* success, the first one or one after a failure, is delivered to every
\* subscriber once, in order, with its result.
C14_FailureIsSkipped ==
    /\ [][(pmOp' = "scanDone" /\ ~pmArg'.ok) =>
            /\ fan' = NoFan
            /\ notified' = <<>>
            /\ UNCHANGED <<intervalId, currentInterval, timers, nextTimerId, clock,
                           listeners, tokens, scanCount>>]_vars
    /\ [][(pmOp' = "scanDone" /\ pmArg'.ok /\ listeners # <<>>) =>
            (fan'.idx = 1 /\ fan'.scan \in inflight /\ snapshot' = listeners)]_vars
    /\ [][FanEnds =>
            /\ Len(notified') = Len(snapshot)
            /\ \A i \in 1..Len(snapshot) :
                  notified'[i] = [listener |-> snapshot[i], scan |-> fan.scan,
                                  data |-> fan.data]]_vars

\* the scan made by the first firing of the timer returned a failure, with
\* a subscriber registered: the manager is running, its timer armed for the
\* next firing
C14_Witness ==
    /\ pmOp = "scanDone"
    /\ ~pmArg.ok
    /\ listeners # <<>>
    /\ scanCount = 2
    /\ inflight = {}
    /\ intervalId # 0
    /\ \E t \in timers : t.id = intervalId /\ t.fired = 1 /\ t.due > clock

\* C15 as stated: a token invoked for the first time, on a list that holds
\* the registrations whose tokens were not invoked, in order, removes the
\* registration it was returned for and leaves the others in their order.
C15_Original ==
    [][\A k \in 1..Len(tokens) :
          (TokenInvoked(k) /\ k \notin used /\ listeners = Registered(used))
              => listeners' = Registered(used \cup {k})]_vars

\* C16 as stated: a token invoked a second or later time leaves the
\* subscriber list as it was.
C16_Original ==
    [][\A k \in 1..Len(tokens) :
          (TokenInvoked(k) /\ k \in used) => listeners' = listeners]_vars

(***************************************************************************)
(* Properties of the port scanners                                         *)
(***************************************************************************)
ScanDone == spc = "done"
Step1 == execs[1]
TimedOut(i) == i \in 1..Len(execs) /\ execs[i].out = "killed"

\* C17 as stated: on every platform no two entries of a successful scan
\* result have the same pid and port.
C17_Original ==
    (ScanDone /\ sresult.success) =>
        \A i, j \in 1..Len(sresult.data) :
            (sresult.data[i].pid = sresult.data[j].pid
                /\ sresult.data[i].port = sresult.data[j].port) => i = j

\* C18: when the step 1 command fails the scan ends there with a failure and
\* one executor invocation: COMMAND_FAILED with the error's message when the
\* error is not a timeout, TIMEOUT when it is.
C18_Step1FailureIsFatal ==
    (execs # <<>> /\ Step1.out \in {"failed", "killed"}) =>
        /\ ScanDone
        /\ Len(execs) = 1
        /\ ~sresult.success
        /\ Step1.out = "failed" =>
              (sresult.type = "COMMAND_FAILED" /\ sresult.message = Step1.message)
        /\ Step1.out = "killed" => sresult.type = "TIMEOUT"

\* the netstat command of the Windows scanner timed out
C18_Witness ==
    /\ platform = "win32"
    /\ execs = <<[cmd |-> "netstat", out |-> "killed", message |-> "spawn ENOENT"]>>
    /\ sresult = [success |-> FALSE, type |-> "TIMEOUT",
                  message |-> "netstat command timed out", data |-> <<>>]

\* C19 as stated: a scan one of whose command invocations timed out, step 1
\* or an enrichment step, returns the error TIMEOUT and never a success.
C19_Original ==
    (ScanDone /\ \E i \in 1..Len(execs) : TimedOut(i)) =>
        (~sresult.success /\ sresult.type = "TIMEOUT")

\* C20: when the step 1 command succeeds and its output parses to no socket
\* record, the scan returns success with an empty list and the executor was
\* invoked once, for step 1.
C20_NoSocketsNoEnrichment ==
    (ScanDone /\ Step1.out = "ok" /\ ports = <<>>) =>
        /\ sresult = ScanSuccess(<<>>)
        /\ Len(execs) = 1
        /\ Step1.cmd = Step1Command(platform)

\* the ss command of the Linux scanner succeeded and nothing was parsed
C20_Witness ==
    /\ platform = "linux"
    /\ ScanDone
    /\ execs = <<[cmd |-> "ss", out |-> "ok", message |-> ""]>>
    /\ ports = <<>>
    /\ sresult = ScanSuccess(<<>>)

\* the execFn calls of the scan for one command, and how they ended
ExecsOf(cmd) == {i \in 1..Len(execs) : execs[i].cmd = cmd}
Invoked(cmd) == ExecsOf(cmd) # {}
Failed(cmd) == \E i \in ExecsOf(cmd) : execs[i].out \in {"failed", "killed"}
KeysOf(es) == {<<es[i].pid, es[i].port>> : i \in 1..Len(es)}
SomeParent == \E p \in DOMAIN processInfoMap : processInfoMap[p].ppid > 0

\* C21: on macOS, when the working directory query (step 2) fails the scan
\* still returns success with one entry per distinct (pid, port) of step 1,
\* every directory is "Unknown", the process query (step 3) was invoked and
\* the parent query (step 4) was invoked when step 3 found a parent.
C21_CwdFailureNotFatal ==
    (platform = "darwin" /\ ScanDone /\ Failed("lsof -d cwd")) =>
        /\ sresult.success
        /\ KeysOf(sresult.data) = KeysOf(ports)
        /\ Len(sresult.data) = Cardinality(KeysOf(ports))
        /\ \A i \in 1..Len(sresult.data) : sresult.data[i].directory = "Unknown"
        /\ Invoked("ps")
        /\ SomeParent => Invoked("ps parents")

\* step 2 failed on macOS, step 1 had found the same socket twice, and
\* steps 3 and 4 both ran
C21_Witness ==
    /\ platform = "darwin"
    /\ ScanDone
    /\ Failed("lsof -d cwd")
    /\ Len(ports) = 2
    /\ Len(sresult.data) = 1
    /\ Invoked("ps parents")
    /\ sresult.data[1].directory = "Unknown"

\* C22: in the macOS and Linux scanners, when the process query (step 3)
\* fails the scan returns success with every command as step 1 parsed it,
\* every parentPid 0 and every parentCommand empty, and the parent query
\* (step 4) is not invoked; step 4 is invoked exactly when step 3 found a
\* parent pid other than 0, and when it fails the scan returns success with
\* every parentCommand empty.
C22_EnrichmentNotFatal ==
    platform \in {"darwin", "linux"} =>
        /\ (ScanDone /\ Failed("ps")) =>
              /\ sresult.success
              /\ ~Invoked("ps parents")
              /\ \A i \in 1..Len(sresult.data) :
                    /\ \E j \in 1..Len(ports) :
                          /\ ports[j].pid = sresult.data[i].pid
                          /\ ports[j].port = sresult.data[i].port
                          /\ ports[j].command = sresult.data[i].command
                    /\ sresult.data[i].parentPid = 0
                    /\ sresult.data[i].parentCommand = <<>>
        /\ Invoked("ps parents") <=> SomeParent
        /\ (ScanDone /\ Failed("ps parents")) =>
              /\ sresult.success
              /\ \A i \in 1..Len(sresult.data) : sresult.data[i].parentCommand = <<>>

\* the ps query of a Linux scan failed after ss had shown two processes
C22_Witness ==
    /\ platform = "linux"
    /\ ScanDone
    /\ Failed("ps")
    /\ Len(execs) = 2
    /\ Len(sresult.data) = 2
    /\ sresult.data[1].command = PythonCommand
    /\ sresult.data[2].command = NodeCommand
    /\ sresult.data[1].parentPid = 0

\* C23: whatever the number of listening processes, one scan invokes the
\* executor at most four times and no command of the pipeline twice: each
\* step, and the Windows fallback query, is one invocation for all the pids.
C23_BoundedInvocations ==
    /\ Len(execs) <= 4
    /\ \A i, j \in 1..Len(execs) : execs[i].cmd = execs[j].cmd => i = j
    /\ platform # "darwin" => Len(execs) <= 3

\* a macOS scan of two processes that went through all four steps
C23_Witness ==
    /\ platform = "darwin"
    /\ ScanDone
    /\ Cardinality(UniquePids(ports)) = 2
    /\ Len(execs) = 4
    /\ \A i \in 1..4 : execs[i].out = "ok"

\* the tokens of a command line
TokensOf(cmd) == {cmd[k] : k \in 1..Len(cmd)}

\* C26 as stated: in every entry of a successful scan result, on every
\* platform, parentCommand is empty when parentPid is 0 or the parent's
\* command was not resolved, and otherwise contains no path separator.
C26_Original ==
    (ScanDone /\ sresult.success) =>
        \A i \in 1..Len(sresult.data) :
            /\ (sresult.data[i].parentPid = 0
                    \/ sresult.data[i].parentPid \notin DOMAIN parentCommandMap) =>
                  sresult.data[i].parentCommand = <<>>
            /\ "/" \notin TokensOf(sresult.data[i].parentCommand)

\* C27: a scan that has returned has returned success or an error of kind
\* COMMAND_FAILED or TIMEOUT, never PARSE_ERROR, whatever the commands
\* printed: lines the parsers do not recognise are skipped.
C27_NoParseError ==
    ScanDone =>
        /\ sresult.success \/ sresult.type \in {"COMMAND_FAILED", "TIMEOUT"}
        /\ sresult.type # "PARSE_ERROR"
        /\ (execs # <<>> /\ Step1.out = "ok") => sresult.success

\* a macOS scan whose ps printed nothing the parser recognised
C27_Witness ==
    /\ ScanDone
    /\ platform = "darwin"
    /\ Len(execs) = 3
    /\ \A i \in 1..3 : execs[i].out = "ok"
    /\ ports # <<>>
    /\ processInfoMap = EmptyMap
    /\ sresult.success

\* mergeCwdWithPorts has returned
Enriched == fpc = "out" /\ "raws" \in DOMAIN fin
KeyOf(r) == <<r.pid, r.port>>
\* the index of the first raw record with the key of r
FirstWith(r) ==
    CHOOSE j \in 1..Len(fin.raws) :
        /\ KeyOf(fin.raws[j]) = KeyOf(r)
        /\ \A k \in 1..(j - 1) : KeyOf(fin.raws[k]) # KeyOf(r)

\* C24: the output of mergeCwdWithPorts has exactly one entry per distinct
\* (pid, port) of the raw records, each built from the first raw record with
\* that key, and the entries are in the order of those first occurrences.
C24_MergeDeduplicates ==
    Enriched =>
        /\ KeysOf(fout) = KeysOf(fin.raws)
        /\ Len(fout) = Cardinality(KeysOf(fin.raws))
        /\ \A i \in 1..Len(fout) :
              /\ fout[i].protocol = fin.raws[FirstWith(fout[i])].protocol
              /\ fout[i].pid \notin DOMAIN fin.pim =>
                    fout[i].command = fin.raws[FirstWith(fout[i])].command
        /\ \A i, j \in 1..Len(fout) :
              i < j => FirstWith(fout[i]) < FirstWith(fout[j])

\* three raw records, the third with the key of the first and another
\* command: two entries, the first with the command of the first record
C24_Witness ==
    /\ Enriched
    /\ Len(fin.raws) = 3
    /\ KeyOf(fin.raws[1]) = KeyOf(fin.raws[3])
    /\ KeyOf(fin.raws[1]) # KeyOf(fin.raws[2])
    /\ fin.raws[1].command = NodeCommand
    /\ fin.raws[3].command = PythonCommand
    /\ fin.pim = EmptyMap
    /\ Len(fout) = 2
    /\ fout[1].command = NodeCommand
    /\ KeyOf(fout[2]) = KeyOf(fin.raws[2])

\* pc is what is left of the command line entry after its last "/" up to
\* the first space that follows
DerivedFrom(pc, entry) ==
    \E a \in 1..(Len(entry) + 1), b \in 0..Len(entry) :
        /\ pc = SubSeq(entry, a, b)
        /\ a = 1 \/ entry[a - 1] = "/"
        /\ \A k \in a..Len(entry) : entry[k] # "/"
        /\ b = Len(entry) \/ entry[b + 1] = " "
        /\ \A k \in a..b : entry[k] # " "

\* C25: each entry of the output of mergeCwdWithPorts has the directory the
\* directory map holds for its pid, "Unknown" when it holds none; the
\* command and ppid the process map holds for its pid, the raw command and
\* 0 when it holds none; a parentCommand derived from the parent-command
\* map's entry for that parentPid, empty when there is none; and the pid,
\* port and protocol of the raw record.
C25_MergeResolvesFields ==
    Enriched =>
        \A i \in 1..Len(fout) :
            LET raw == fin.raws[FirstWith(fout[i])]
                e == fout[i]
            IN  /\ e.pid = raw.pid /\ e.port = raw.port /\ e.protocol = raw.protocol
                /\ e.directory = IF raw.pid \in DOMAIN fin.cwd THEN fin.cwd[raw.pid]
                                 ELSE "Unknown"
                /\ e.command = IF raw.pid \in DOMAIN fin.pim
                               THEN fin.pim[raw.pid].command ELSE raw.command
                /\ e.parentPid = IF raw.pid \in DOMAIN fin.pim
                                 THEN fin.pim[raw.pid].ppid ELSE 0
                /\ IF e.parentPid \in DOMAIN fin.pcm
                   THEN DerivedFrom(e.parentCommand, fin.pcm[e.parentPid])
                   ELSE e.parentCommand = <<>>

\* one entry resolved from all three maps and one left with the defaults
C25_Witness ==
    /\ Enriched
    /\ Len(fout) = 2
    /\ fout[1] = [pid |-> 11, port |-> 3000, command |-> FullCommand,
                  directory |-> "/srv/app", protocol |-> "TCP", parentPid |-> 1,
                  parentCommand |-> <<"app.js">>]
    /\ fout[2] = [pid |-> 22, port |-> 3000, command |-> PythonCommand,
                  directory |-> "Unknown", protocol |-> "TCP", parentPid |-> 0,
                  parentCommand |-> <<>>]

\* a step 1 parser has returned
Parsed(plat) == fpc = "out" /\ "lines" \in DOMAIN fin /\ fin.platform = plat
\* a line in LISTEN state with a port and a pid made of digits
WellFormed(line) == line.state = "LISTEN" /\ line.port # NaN /\ line.pid # NaN
\* the data lines of the lsof output that are well formed, and the rank of
\* one among them
ListenData == {i \in 2..Len(fin.lines) : WellFormed(fin.lines[i])}
RankOf(i) == Cardinality({j \in ListenData : j <= i})

\* C28: for lsof output made of a header line and data lines,
\* parseLsofOutput returns one record per data line in LISTEN state with a
\* well-formed port and pid, in the order of the lines, with that line's
\* pid, port and command; the other lines give no record and do not stop
\* the parsing; empty and header-only output give the empty list.
C28_LsofOneRecordPerListenLine ==
    (Parsed("darwin") /\ (fin.lines = <<>> \/ fin.lines[1] = HeaderLine)) =>
        /\ Len(fout) = Cardinality(ListenData)
        /\ \A i \in ListenData :
              fout[RankOf(i)] = [pid |-> fin.lines[i].pid, port |-> fin.lines[i].port,
                                 command |-> fin.lines[i].command, protocol |-> "TCP"]
        /\ Len(fin.lines) <= 1 => fout = <<>>

\* a header, a line in another state and a LISTEN line: one record
C28_Witness ==
    /\ Parsed("darwin")
    /\ Len(fin.lines) = 3
    /\ fin.lines[1] = HeaderLine
    /\ fin.lines[2].state = "ESTABLISHED"
    /\ WellFormed(fin.lines[3])
    /\ fin.lines[3].addr = "v6"
    /\ fout = <<[pid |-> 11, port |-> 3000, command |-> NodeCommand,
                 protocol |-> "TCP"]>>

\* C29 as stated: in the parser of every platform a LISTEN line whose local
\* address is a wildcard, an IPv4 literal or a bracketed IPv6 literal gives
\* a record with the port of the line.
C29_Original ==
    \A plat \in Platforms :
        Parsed(plat) =>
            \A i \in (IF plat = "darwin" THEN 2 ELSE 1)..Len(fin.lines) :
                (WellFormed(fin.lines[i]) /\ fin.lines[i].addr \in Addrs) =>
                    \E k \in 1..Len(fout) :
                        /\ fout[k].port = fin.lines[i].port
                        /\ fout[k].pid = fin.lines[i].pid

\* what the tool said: its standard error, or the error's message when
\* that is empty
SaidBy(t) == IF t.stderr # "" THEN t.stderr ELSE t.message

\* C30: on Windows each killProcess call issues exactly one taskkill /F
\* /PID command for its pid, with a timeout of 5000 ms, sends no signal and
\* never probes or sleeps; when the command fails the result is NOT_FOUND
\* with the pid when the tool said "not found", otherwise PERMISSION_DENIED
\* with the pid when it said "Access is denied", otherwise UNKNOWN with what
\* the tool said; when it succeeds the result is success.
C30_WindowsKillSingleShot ==
    [][/\ calls' = <<>> /\ waits' = <<>>
       /\ (kpc # "taskkill" /\ kpc' = "taskkill") =>
             /\ Len(taskkills') = Len(taskkills) + 1
             /\ taskkills'[Len(taskkills')].cmd = "taskkill /F /PID"
             /\ taskkills'[Len(taskkills')].pid = kpid'
             /\ taskkills'[Len(taskkills')].timeout = 5000
       /\ (kpc = "taskkill" /\ kpc' = "done") =>
             /\ Len(taskkills') = Len(taskkills)
             /\ LET t == taskkills'[Len(taskkills')]
                IN  kresult' =
                      IF t.out = "ok" THEN Success
                      ELSE IF Includes(SaidBy(t), "not found")
                           THEN Failure("NOT_FOUND", kpid, "")
                      ELSE IF Includes(SaidBy(t), "Access is denied")
                           THEN Failure("PERMISSION_DENIED", kpid, "")
                      ELSE Failure("UNKNOWN", 0, SaidBy(t))
       /\ kpc' = kpc => taskkills' = taskkills]_vars

\* a second kill on Windows, of pid 12345, was refused: one taskkill for
\* each of the two calls, and no signal
C30_Witness ==
    /\ platform = "win32"
    /\ kpc = "done"
    /\ Len(taskkills) = 2
    /\ taskkills[1].out = "ok"
    /\ taskkills[2].pid = 12345
    /\ taskkills[2].stderr =
          "ERROR: The process with PID 12345 could not be terminated. Reason: Access is denied."
    /\ kresult = Failure("PERMISSION_DENIED", 12345, "")
    /\ calls = <<>>

\* C31: setInterval(ms) on a manager that is not running stores ms as the
\* interval and does nothing else: no timer is armed, no getPortList call is
\* made and the manager stays not running; no other operation changes the
\* stored interval, and a start() on a manager that is not running arms its
\* one timer at the stored interval.
C31_SetIntervalWhileStopped ==
    [][/\ (pmOp' = "setInterval" /\ intervalId = 0) =>
            /\ currentInterval' = pmArg'.ms
            /\ intervalId' = 0
            /\ timers' = {}
            /\ UNCHANGED <<nextTimerId, scanCount, inflight, listeners, clock>>
       /\ pmOp' # "setInterval" => currentInterval' = currentInterval
       /\ (pmOp' = "start" /\ intervalId = 0) =>
            \E t \in timers' :
                /\ timers' = {t}
                /\ t.id = intervalId'
                /\ t.interval = currentInterval
                /\ t.due = clock + currentInterval]_vars

\* the first start() of a manager whose interval had been set to 1000
\* before: its first timer is armed at 1000
C31_Witness ==
    /\ pmOp = "start"
    /\ nextTimerId = 2
    /\ scanCount = 1
    /\ currentInterval = 1000
    /\ timers = {[id |-> 1, interval |-> 1000, armedAt |-> clock,
                  due |-> clock + 1000, fired |-> 0]}

\* C32: a timer that fires makes a new getPortList call whatever scans are
\* still in flight, and those stay in flight; any scan in flight may
\* complete, whatever the order the scans were started in, and the
\* notification that follows carries the id and the result of the scan that
\* completed.
C32_ScansOverlap ==
    [][/\ pmOp' = "timer" =>
            /\ scanCount' = scanCount + 1
            /\ scanCount' \notin inflight
            /\ inflight' = inflight \cup {scanCount'}
       /\ pmOp' = "scanDone" =>
            \E id \in inflight :
                /\ inflight' = inflight \ {id}
                /\ fan' # NoFan => fan'.scan = id
                /\ (pmArg'.ok /\ listeners # <<>>) => fan' # NoFan
       /\ pmOp' = "notify" =>
            /\ notified'[Len(notified')].scan = fan.scan
            /\ notified'[Len(notified')].data = fan.data
            /\ UNCHANGED <<inflight, scanCount>>]_vars

\* the scan a timer started while the first scan was in flight has been
\* delivered to the subscriber, and the first scan is still in flight
C32_Witness ==
    /\ pmOp = "notify"
    /\ inflight = {1}
    /\ scanCount = 2
    /\ Len(notified) = 1
    /\ notified[1].scan = 2
    /\ \E t \in timers : t.fired = 1

\* the executable name of a command line: the last path segment of its
\* first whitespace-delimited token
FirstToken(cmd) ==
    IF IndexOf(cmd, " ") = 0 THEN cmd ELSE SubSeq(cmd, 1, IndexOf(cmd, " ") - 1)
ExecutableName(cmd) ==
    SubSeq(FirstToken(cmd), LastIndexOf(FirstToken(cmd), "/") + 1, Len(FirstToken(cmd)))

\* C33 as stated: in every entry of the output of mergeCwdWithPorts whose
\* parent's command line is in the parent-command map, parentCommand is the
\* executable name of that command line, also when its arguments contain
\* path separators.
C33_Original ==
    Enriched =>
        \A i \in 1..Len(fout) :
            fout[i].parentPid \in DOMAIN fin.pcm =>
                fout[i].parentCommand = ExecutableName(fin.pcm[fout[i].parentPid])

\* C34: whatever start(), stop() and setInterval() calls are made, at most
\* one timer is armed, it is the one the manager holds, and one is armed
\* exactly when the manager is running, which it is from a start() to the
\* next stop(); a timer handle is never reused, so a timer that was replaced
\* or stopped is not among the armed ones.
C34_OneTimerWhileRunning ==
    /\ [](/\ Cardinality(timers) <= 1
          /\ timers # {} <=> intervalId # 0
          /\ \A t \in timers : t.id = intervalId
          /\ intervalId < nextTimerId)
    /\ [][/\ pmOp' = "start" => intervalId' # 0
          /\ pmOp' = "stop" => intervalId' = 0
          /\ pmOp' \notin {"start", "stop"} => (intervalId' = 0 <=> intervalId = 0)
          /\ intervalId' \in {0, intervalId, nextTimerId}
          /\ nextTimerId' >= nextTimerId]_vars

\* the third timer of a manager, armed by a setInterval on a running
\* manager, is the only one armed
C34_Witness ==
    /\ pmOp = "setInterval"
    /\ nextTimerId = 4
    /\ intervalId = 3
    /\ \E t \in timers : timers = {t} /\ t.id = 3 /\ t.armedAt > 0

\* C35: stop() leaves the scans in flight as they are, and a scan that
\* completes with success while the manager is not running is delivered all
\* the same: the subscribers registered when it completes are each invoked
\* with its result, and the manager stays not running.
C35_StopDoesNotCancel ==
    [][/\ pmOp' = "stop" => inflight' = inflight
       /\ (pmOp' = "scanDone" /\ pmArg'.ok /\ intervalId = 0) =>
            /\ intervalId' = 0 /\ timers' = {}
            /\ listeners # <<>> =>
                  /\ fan'.scan \in inflight /\ fan'.idx = 1
                  /\ snapshot' = listeners
       /\ (FanEnds /\ intervalId = 0) =>
            /\ intervalId' = 0
            /\ [i \in 1..Len(notified') |-> notified'[i].listener] = snapshot
            /\ \A i \in 1..Len(notified') :
                  notified'[i].scan = fan.scan /\ notified'[i].data = fan.data]_vars

\* the scan start() made was delivered to the subscriber after stop()
C35_Witness ==
    /\ pmOp = "notify"
    /\ intervalId = 0
    /\ timers = {}
    /\ nextTimerId = 2
    /\ scanCount = 1
    /\ inflight = {}
    /\ Len(notified) = 1
    /\ notified[1].scan = 1
    /\ notified[1].data = "node:3000"

\* this step is a subscriber invoking, while it is notified, a token that
\* removes a registration at or before the position of the loop
RemovesAtOrBefore ==
    /\ pmOp' = "notify"
    /\ pmArg'.token \in 1..Len(tokens)
    /\ IndexOf(listeners, tokens[pmArg'.token]) \in 1..fan.idx
\* this step is a subscriber registering a callback while it is notified
RegistersInFan == pmOp' = "notify" /\ Len(tokens') = Len(tokens) + 1
\* the registration after the current one is passed over: it moves to the
\* current position and the loop goes on from the next one
FollowerSkipped ==
    fan.idx < Len(listeners) =>
        /\ listeners'[fan.idx] = listeners[fan.idx + 1]
        /\ fan' = NoFan \/ fan'.idx = fan.idx + 1
        /\ fan' # NoFan => listeners'[fan'.idx] = listeners[fan.idx + 2]
        /\ fan' = NoFan <=> fan.idx + 1 = Len(listeners)
\* the callbacks invoked by the notification that this step ends
InvokedNames == [i \in 1..Len(notified') |-> notified'[i].listener]

\* C36 as stated: a token invoked during a fan-out for a subscriber at or
\* before the current position makes the subscriber after the current one
\* skipped for that notification, and every subscriber registered during a
\* fan-out is invoked in that same fan-out.
C36_Original ==
    [][/\ RemovesAtOrBefore => FollowerSkipped
       /\ FanEnds =>
            \A k \in (fan.base + 1)..Len(tokens') :
                \E i \in 1..Len(notified') : notified'[i].listener = tokens'[k]]_vars

\* C36 amended: the loop invokes the subscriber at its current position of
\* the live list; a token invoked during a fan-out for a subscriber at or
\* before the current position makes the subscriber after the current one
\* skipped; a callback registered during a fan-out is appended and the loop
\* goes on, and when no registration was removed during the fan-out the
\* subscribers invoked are those of the list at its end, the ones
\* registered during the fan-out included, each once and in order.
C36_LiveFanOut ==
    [][/\ pmOp' = "notify" =>
            notified'[Len(notified')].listener = listeners[fan.idx]
       /\ RemovesAtOrBefore => FollowerSkipped
       /\ RegistersInFan =>
            /\ listeners' = Append(listeners, tokens'[Len(tokens')])
            /\ fan' # NoFan /\ fan'.idx = fan.idx + 1
       /\ (FanEnds /\ Len(listeners') = Len(snapshot) + Len(tokens') - fan.base) =>
            InvokedNames = listeners']_vars

\* the first of three subscribers removed itself while it was notified:
\* the loop is at position 2 of the list, where the third one now is
C36_Witness ==
    /\ fan # NoFan
    /\ fan.idx = 2
    /\ snapshot = <<"cbA", "cbB", "cbA">>
    /\ listeners = <<"cbB", "cbA">>
    /\ Len(notified) = 1
    /\ notified[1].listener = "cbA"

\* C37: every change of the store under one of the keys pollingInterval,
\* alwaysOnTop, sortColumn and sortDirection calls setInterval with the
\* stored polling interval, which on a running manager replaces the timer by
\* one armed at the time of the change and first due one interval later,
\* and makes no getPortList call; so a timer fires, and makes its call, only
\* when a full interval has passed since the last such change.
C37_SettingsChangeRearms ==
    [][/\ (lastChange' # lastChange
             /\ lastChange'.key \in {"pollingInterval", "alwaysOnTop", "sortColumn",
                                     "sortDirection"}) =>
            /\ pmOp' = "setInterval"
            /\ pmArg'.ms = settings'.pollingInterval
            /\ currentInterval' = settings'.pollingInterval
            /\ UNCHANGED <<scanCount, inflight>>
            /\ intervalId # 0 =>
                  /\ intervalId' \notin {0, intervalId}
                  /\ timers' = {[id |-> intervalId', interval |-> currentInterval',
                                 armedAt |-> clock, due |-> clock + currentInterval',
                                 fired |-> 0]}
       /\ (pmOp' = "timer" /\ scanCount' # scanCount /\ lastChange.key # "filterText"
             /\ lastChange # NoChange) =>
            clock >= lastChange.at + currentInterval]_vars

\* the timer armed at 0 with 3000 was due at 3000; alwaysOnTop changed at
\* 1000, and the first timer-driven scan is made at 4000
C37_Witness ==
    /\ pmOp = "timer"
    /\ clock = 4000
    /\ currentInterval = 3000
    /\ lastChange = [key |-> "alwaysOnTop", at |-> 1000, n |-> 1]
    /\ scanCount = 2
    /\ nextTimerId = 3
    /\ app.ready = "started"
    /\ listeners = <<MainListener>>

\* C38: killProcess resolves with NOT_FOUND only when its SIGTERM send, the
\* one killFn call it then made, threw ESRCH; when a later killFn call (a
\* probe of the graceful wait, the SIGKILL send, a probe of the second wait)
\* throws ESRCH, that call is the last one and killProcess resolves with
\* success.
C38_NotFoundOnlyFromSigterm ==
    /\ kresult.type = "NOT_FOUND" =>
          /\ Len(calls) = 1
          /\ calls[1].signal = "SIGTERM"
          /\ calls[1].outcome.code = "ESRCH"
          /\ kresult = Failure("NOT_FOUND", calls[1].pid, "")
    /\ \A i \in CallIdx :
          (i > 1 /\ calls[i].outcome.code = "ESRCH") =>
             /\ i = Len(calls)
             /\ kpc = "done"
             /\ kresult = Success

\* the SIGKILL send throws ESRCH after a graceful wait of at least one probe
C38_Witness ==
    /\ kpc = "done"
    /\ SigtermOk
    /\ GracefulTimedOut
    /\ NumProbes >= 1
    /\ IsSigkill(Len(calls))
    /\ calls[Len(calls)].outcome.code = "ESRCH"
    /\ kresult = Success

\* C39: when the SIGTERM send returned and a probe of the graceful wait
\* throws EPERM, that probe is the last killFn call, no SIGKILL is sent, the
\* wait ends by the throw, and killProcess resolves with PERMISSION_DENIED
\* carrying the pid.
C39_GracefulProbeEperm ==
    \A i \in CallIdx :
       (/\ SigtermOk
        /\ IsProbe(i)
        /\ calls[i].outcome.code = "EPERM"
        /\ \A j \in 1..(i - 1) : ~IsSigkill(j)) =>
          /\ i = Len(calls)
          /\ ~SigkillSent
          /\ waits = <<"threw">>
          /\ kpc = "done"
          /\ kresult = Failure("PERMISSION_DENIED", kpid, "")
          /\ kpid = calls[1].pid

\* the third probe of the graceful wait throws EPERM
C39_Witness ==
    /\ kpc = "done"
    /\ SigtermOk
    /\ kpid = 777
    /\ Len(calls) = 4
    /\ IsProbe(4) /\ calls[4].outcome.code = "EPERM"
    /\ calls[2].outcome = Returned /\ calls[3].outcome = Returned
    /\ kphase = "graceful"
    /\ kresult = Failure("PERMISSION_DENIED", 777, "")

====
